---------------------------- MODULE Spec2Model ----------------------------
(***************************************************************************)
(* A model of trl/trainer/soft_q_learning_trainer.py: the soft-Q-learning  *)
(* loss family (soft_q_loss_with_sparse_rewards and its variants) and the  *)
(* SoftQLearningTrainer with its target-network synchronizer.              *)
(*                                                                         *)
(* Numbers.  Tensor elements are real numbers; the model keeps them exact  *)
(* as fixed-point integers counting units of 1/Den (Fix(k) is the real k). *)
(* Logits, values and rewards are measured in units of ln 2, so that       *)
(* logsumexp(x) = log2(sum_a 2^x[a]); the logit rows the inputs are drawn  *)
(* from have a power of two as that sum, which makes logsumexp exact.      *)
(* Every product and quotient the model takes is exact on these inputs.    *)
(*                                                                         *)
(* Indices are 0-based as in the source; a tensor of rank 2 is a function  *)
(* [0..B-1 -> [0..T-1 -> Int]].                                            *)
(***************************************************************************)
EXTENDS Integers, Sequences, FiniteSets, TLC

VARIABLES
    largs,      \* the arguments of the soft_q_loss_with_sparse_rewards call
    lres,       \* what that call returned or raised, with its locals
    lres2,      \* the same for a second call, on arguments changed in the padding
    lphase,     \* "ready" | "called" | "repadded" | "compared"
    trainer,    \* the attributes SoftQLearningTrainer.__init__ sets
    pval,       \* the value of every parameter of the two networks
    grad,       \* each parameter's .grad: the steps whose backward pass added to it
    optimizer,  \* the optimizer: its parameters and its per-parameter state
    nsteps,     \* the number of step() calls the training loop has made
    nsyncs,     \* the number of direct calls of sync_target_model so far
    last,       \* the last call of step() or sync_target_model(): what it did
    tphase,     \* "off" | "training" | "aborted"
    fcall,      \* a call of one of the module's helper functions: its name and arguments
    fres,       \* what that call returned or raised
    fphase,     \* "off" | "ready" | "returned" | "mutated"
    tracker,    \* the per-prompt statistics tracker: its buffers and what it received
    ddpo        \* the DDPO trainer's outer epoch: its phase, batches and rewards

lossVars == <<largs, lres, lres2, lphase>>

trainerVars == <<trainer, pval, grad, optimizer, nsteps, nsyncs, last, tphase>>

functionVars == <<fcall, fres, fphase>>

ddpoVars == <<tracker, ddpo>>

vars == <<largs, lres, lres2, lphase, trainer, pval, grad, optimizer, nsteps, nsyncs, last, tphase, fcall, fres, fphase, tracker, ddpo>>

\* F applied to a value that is computed once
With(value, F(_)) == CHOOSE y \in { F(x) : x \in {value} } : TRUE

\* Python's None, and a value that may be None: None or Some(x)
None == <<>>

Some(x) == <<x>>

ValueOf(opt) == opt[1]

----------------------------------------------------------------------------
(* Bounds of the model *)

\* time steps per row (the T of [B, T, |vocab|])
MaxT == 2

\* coefficients are the fractions k/CoefDen, k in 1..CoefDen
CoefDen == 2

\* step() calls of the training loop
MaxSteps == 3

\* direct calls of sync_target_model()
MaxSyncCalls == 1

----------------------------------------------------------------------------
(* Exact arithmetic *)

Den == 2 * CoefDen

Fix(k) == k * Den

One == Fix(1)

MulFix(a, b) == (a * b) \div Den

Pow2(n) == IF n <= 0 THEN 1 ELSE 2 ^ n

RECURSIVE SumTo(_, _)
\* f[0] + ... + f[n-1]
SumTo(f, n) == IF n <= 0 THEN 0 ELSE SumTo(f, n - 1) + f[n - 1]

RECURSIVE MaxTo(_, _)
\* max(f[0], ..., f[n-1]), n >= 1
MaxTo(f, n) ==
    IF n <= 1 THEN f[0]
    ELSE LET m == MaxTo(f, n - 1) IN IF f[n - 1] > m THEN f[n - 1] ELSE m

RECURSIVE Log2(_)
\* floor(log2(n)), n >= 1; exact when n is a power of two
Log2(n) == IF n <= 1 THEN 0 ELSE 1 + Log2(n \div 2)

IsPow2(n) == n >= 1 /\ Pow2(Log2(n)) = n

\* Python's sequence indexing: a negative index counts from the end
PyIndex(j, n) == IF j < 0 THEN j + n ELSE j

----------------------------------------------------------------------------
(* Tensors *)

\* x.logsumexp(dim=-1) of one logit row, in units of ln 2
logsumexp(row, V) ==
    Fix(Log2(SumTo([a \in 0..(V - 1) |-> Pow2(row[a] \div Den)], V)))

\* logits.logsumexp(dim=-1): [B, T, V] -> [B, T]
logsumexp_last(x) ==
    [i \in 0..(x.shape[1] - 1) |->
        [t \in 0..(x.shape[2] - 1) |-> logsumexp(x.data[i][t], x.shape[3])]]

\* view(-1, V), one gathered element per flattened position, view(shape):
\* element (i, t) is tensor[i, t, index[i, t]]
gather_2d_on_last_dim(tensor, index) ==
    [i \in 0..(tensor.shape[1] - 1) |->
        [t \in 0..(tensor.shape[2] - 1) |-> tensor.data[i][t][index[i][t]]]]

\* F.mse_loss(X, Y, reduction="none")
mse_loss(X, Y, B, T) ==
    [i \in 0..(B - 1) |->
        [t \in 0..(T - 1) |-> MulFix(X[i][t] - Y[i][t], X[i][t] - Y[i][t])]]

zeros(B, T) == [i \in 0..(B - 1) |-> [t \in 0..(T - 1) |-> 0]]


----------------------------------------------------------------------------
(* Dictionaries: Python dicts keep insertion order, so a dict is a sequence  *)
(* of entries [k, v] with distinct keys.                                     *)

DictKeys(d) == {d[n].k : n \in DOMAIN d}

DictGet(d, key) == (CHOOSE n \in DOMAIN d : d[n].k = key)

DictValue(d, key) == d[DictGet(d, key)].v

\* d.pop(key), the dict that is left
DictPop(d, key) == SelectSeq(d, LAMBDA e : e.k # key)

\* d[key] = val: an existing key keeps its place, a new key is appended
DictSet(d, key, val) ==
    IF key \in DictKeys(d)
    THEN [n \in DOMAIN d |-> IF d[n].k = key THEN [k |-> key, v |-> val] ELSE d[n]]
    ELSE Append(d, [k |-> key, v |-> val])

RECURSIVE DictUpdate(_, _, _)
\* merged_dict.update(dict_), from entry n of dict_ on
DictUpdate(merged, dict_, n) ==
    IF n > Len(dict_) THEN merged
    ELSE DictUpdate(DictSet(merged, dict_[n].k, dict_[n].v), dict_, n + 1)

RECURSIVE unionize_dicts_from(_, _, _)
unionize_dicts_from(merged, dict_list, n) ==
    IF n > Len(dict_list) THEN merged
    ELSE unionize_dicts_from(DictUpdate(merged, dict_list[n], 1), dict_list, n + 1)

unionize_dicts(dict_list) == unionize_dicts_from(<<>>, dict_list, 1)

RECURSIVE add_prefix_loop(_, _, _, _, _)
\* the loop over keys = list(d.keys()), from keys[n] on
add_prefix_loop(d, keys, n, prefix, keys_to_exclude) ==
    IF n > Len(keys) THEN d
    ELSE IF keys_to_exclude # None /\ keys[n] \in ValueOf(keys_to_exclude)
         THEN add_prefix_loop(d, keys, n + 1, prefix, keys_to_exclude)
         ELSE LET val == DictValue(d, keys[n])
                  popped == DictPop(d, keys[n])
              IN  add_prefix_loop(DictSet(popped, prefix \o keys[n], val),
                                  keys, n + 1, prefix, keys_to_exclude)

add_prefix_to_dict_keys_inplace(d, prefix, keys_to_exclude) ==
    add_prefix_loop(d, [n \in DOMAIN d |-> d[n].k], 1, prefix, keys_to_exclude)

Entry(key, val) == [k |-> key, v |-> val]

----------------------------------------------------------------------------
(* Masked reductions (trl.core; this repository's code, not among the       *)
(* source files: modelled from the specification's section 4.2)             *)

\* position t of row i is valid iff t < sequence_length[i]
sequence_mask(sequence_length, i, t) == t < sequence_length[i]

RECURSIVE Factorial(_)
Factorial(n) == IF n <= 1 THEN 1 ELSE n * Factorial(n - 1)

\* zero the invalid positions; sum over time (sum_over_timesteps) or divide
\* the row's sum by max(sequence_length, 1) (average_across_timesteps); then
\* average over the batch.  The result is kept as the exact fraction num/den.
mask_and_reduce(sequence, sequence_length, average_across_timesteps, sum_over_timesteps, B, T) ==
    LET row_sum(i) == SumTo([t \in 0..(T - 1) |->
                               IF sequence_mask(sequence_length, i, t)
                               THEN sequence[i][t] ELSE 0], T)
        length(i) == IF sequence_length[i] < 1 THEN 1 ELSE sequence_length[i]
    IN  IF average_across_timesteps
        THEN [num |-> SumTo([i \in 0..(B - 1) |->
                               (row_sum(i) * Factorial(T)) \div length(i)], B),
              den |-> B * Factorial(T)]
        ELSE [num |-> SumTo([i \in 0..(B - 1) |-> row_sum(i)], B),
              den |-> B]

\* for a valid position t the sum of the sequence over [t, lengths[i]), zero
\* beyond the end
masked_reverse_cumsum(X, lengths, B, T) ==
    [i \in 0..(B - 1) |->
        [t \in 0..(T - 1) |->
            IF sequence_mask(lengths, i, t)
            THEN SumTo([u \in 0..(T - 1) |->
                          IF u >= t /\ sequence_mask(lengths, i, u)
                          THEN X[i][u] ELSE 0], T)
            ELSE 0]]

----------------------------------------------------------------------------
(* The loss variants.  Each returns [raw_losses, quantities_to_log].  The    *)
(* entropies "H" and "H_" that V2 also logs are not modelled: they are not   *)
(* part of any loss.                                                         *)

Batch(logits) == logits.shape[1]

Time(logits) == logits.shape[2]

\* X[torch.arange(B), sequence_length - 1] = vals
terminal_put(X, sequence_length, vals, B, T) ==
    [i \in 0..(B - 1) |->
        [X[i] EXCEPT ![PyIndex(sequence_length[i] - 1, T)] = vals[i]]]

\* X[torch.arange(B), sequence_length - 1]
terminal_get(X, sequence_length, B, T) ==
    [i \in 0..(B - 1) |-> X[i][PyIndex(sequence_length[i] - 1, T)]]

\* Y[:, :-1] = X[:, 1:] on a tensor Y of zeros
shifted(X, B, T) ==
    [i \in 0..(B - 1) |-> [t \in 0..(T - 1) |-> IF t < T - 1 THEN X[i][t + 1] ELSE 0]]

\* Y[:, :-1] = X[:, 1:] - X[:, :-1] on a tensor Y of zeros
shifted_difference(X, B, T) ==
    [i \in 0..(B - 1) |->
        [t \in 0..(T - 1) |-> IF t < T - 1 THEN X[i][t + 1] - X[i][t] ELSE 0]]

minus(X, Y, B, T) == [i \in 0..(B - 1) |-> [t \in 0..(T - 1) |-> X[i][t] - Y[i][t]]]

soft_q_loss_with_sparse_rewards_0(logits, logits_, actions, rewards, sequence_length) ==
    LET B == Batch(logits)
        T == Time(logits)
        V == logsumexp_last(logits)
        V_ == logsumexp_last(logits_)
    IN  [raw_losses |-> mse_loss(V, V_, B, T),
         quantities_to_log |-> <<Entry("V", V), Entry("V_", V_)>>]

\* mutant: the reward is written at index sequence_length, one past the terminal
soft_q_loss_1_reward_past_terminal(logits, logits_, actions, rewards, sequence_length) ==
    LET B == Batch(logits)
        T == Time(logits)
        Q == gather_2d_on_last_dim(logits, actions)
        V_ == logsumexp_last(logits_)
        Q_ == terminal_put(shifted(V_, B, T), [i \in 0..(B - 1) |-> sequence_length[i] + 1],
                           rewards.data, B, T)
    IN  [raw_losses |-> mse_loss(Q, Q_, B, T),
         quantities_to_log |->
            <<Entry("Q", Q), Entry("V", logsumexp_last(logits)),
              Entry("Q_", Q_), Entry("V_", V_)>>]

soft_q_loss_with_sparse_rewards_1(logits, logits_, actions, rewards, sequence_length) ==
    LET B == Batch(logits)
        T == Time(logits)
        Q == gather_2d_on_last_dim(logits, actions)
        V_ == logsumexp_last(logits_)
        Q_ == terminal_put(shifted(V_, B, T), sequence_length, rewards.data, B, T)
    IN  [raw_losses |-> mse_loss(Q, Q_, B, T),
         quantities_to_log |->
            <<Entry("Q", Q), Entry("V", logsumexp_last(logits)),
              Entry("Q_", Q_), Entry("V_", V_)>>]

\* mutant: the shifted difference is written after the terminal advantage
soft_q_loss_2_shift_after_terminal(logits, logits_, actions, rewards, sequence_length) ==
    LET B == Batch(logits)
        T == Time(logits)
        Q == gather_2d_on_last_dim(logits, actions)
        V == logsumexp_last(logits)
        A == minus(Q, V, B, T)
        V_ == logsumexp_last(logits_)
        terminal_V_ == terminal_get(V_, sequence_length, B, T)
        Q_ == terminal_put(shifted(V_, B, T), sequence_length, rewards.data, B, T)
        terminal_A_ == terminal_put(zeros(B, T), sequence_length,
                           [i \in 0..(B - 1) |-> rewards.data[i] - terminal_V_[i]], B, T)
        A_ == [i \in 0..(B - 1) |->
                 [t \in 0..(T - 1) |->
                    IF t < T - 1 THEN V_[i][t + 1] - V_[i][t] ELSE terminal_A_[i][t]]]
    IN  [raw_losses |-> mse_loss(A, A_, B, T),
         quantities_to_log |->
            <<Entry("Q", Q), Entry("V", V), Entry("A", A),
              Entry("Q_", Q_), Entry("V_", V_), Entry("A_", A_)>>]

soft_q_loss_with_sparse_rewards_2(logits, logits_, actions, rewards, sequence_length) ==
    LET B == Batch(logits)
        T == Time(logits)
        Q == gather_2d_on_last_dim(logits, actions)
        V == logsumexp_last(logits)
        A == minus(Q, V, B, T)
        V_ == logsumexp_last(logits_)
        terminal_V_ == terminal_get(V_, sequence_length, B, T)
        Q_ == terminal_put(shifted(V_, B, T), sequence_length, rewards.data, B, T)
        A_ == terminal_put(shifted_difference(V_, B, T), sequence_length,
                           [i \in 0..(B - 1) |-> rewards.data[i] - terminal_V_[i]], B, T)
    IN  [raw_losses |-> mse_loss(A, A_, B, T),
         quantities_to_log |->
            <<Entry("Q", Q), Entry("V", V), Entry("A", A),
              Entry("Q_", Q_), Entry("V_", V_), Entry("A_", A_)>>]

\* freeze_future_steps keeps its default False: (A2 - A).detach() + A has the
\* value of A2 and the dispatcher never sets it
soft_q_loss_with_sparse_rewards_3(logits, logits_, actions, rewards, sequence_length) ==
    LET B == Batch(logits)
        T == Time(logits)
        Q == gather_2d_on_last_dim(logits, actions)
        V == logsumexp_last(logits)
        A == minus(Q, V, B, T)
        V_ == logsumexp_last(logits_)
        A2 == masked_reverse_cumsum(A, sequence_length, B, T)
        target == [i \in 0..(B - 1) |-> [t \in 0..(T - 1) |-> rewards.data[i] - V_[i][t]]]
    IN  [raw_losses |-> mse_loss(A2, target, B, T),
         quantities_to_log |->
            <<Entry("Q", Q), Entry("V", V), Entry("A", A), Entry("V_", V_)>>]

\* mutant: the margin of the expert action is not set to zero
large_margin_unmasked(logits, expert_actions, margin_constant) ==
    LET B == Batch(logits)
        T == Time(logits)
        V == logits.shape[3]
        raw_losses ==
            [i \in 0..(B - 1) |->
                [t \in 0..(T - 1) |->
                    MaxTo([a \in 0..(V - 1) |-> logits.data[i][t][a] + margin_constant], V)
                    - logits.data[i][t][expert_actions[i][t]]]]
    IN  [raw_losses |-> raw_losses,
         quantities_to_log |-> <<Entry("loss", raw_losses)>>]

\* (logits + margin).max(dim=-1).values - logits[indices], margin zeroed at
\* the expert action
large_margin_classification_loss(logits, expert_actions, margin_constant) ==
    LET B == Batch(logits)
        T == Time(logits)
        V == logits.shape[3]
        raw_losses ==
            [i \in 0..(B - 1) |->
                [t \in 0..(T - 1) |->
                    MaxTo([a \in 0..(V - 1) |->
                             logits.data[i][t][a]
                             + (IF a = expert_actions[i][t] THEN 0 ELSE margin_constant)], V)
                    - logits.data[i][t][expert_actions[i][t]]]]
    IN  [raw_losses |-> raw_losses,
         quantities_to_log |-> <<Entry("loss", raw_losses)>>]

\* mutant: the coefficient weighs the reversed loss
mix_swapped(coefficient, X, Y, B, T) ==
    [i \in 0..(B - 1) |->
        [t \in 0..(T - 1) |->
            MulFix(One - coefficient, X[i][t]) + MulFix(coefficient, Y[i][t])]]

\* coefficient * X + (1 - coefficient) * Y
mix(coefficient, X, Y, B, T) ==
    [i \in 0..(B - 1) |->
        [t \in 0..(T - 1) |->
            MulFix(coefficient, X[i][t]) + MulFix(One - coefficient, Y[i][t])]]

\* X + coefficient * Y
plus_scaled(X, coefficient, Y, B, T) ==
    [i \in 0..(B - 1) |->
        [t \in 0..(T - 1) |-> X[i][t] + MulFix(coefficient, Y[i][t])]]

soft_q_loss_with_sparse_rewards_2_2_reversed(logits, logits_, actions, rewards, sequence_length, coefficient, margin_constant, margin_coefficient) ==
    LET B == Batch(logits)
        T == Time(logits)
        fwd == soft_q_loss_with_sparse_rewards_2(logits, logits_, actions, rewards,
                                                 sequence_length)
        quantities_to_log_2 ==
            add_prefix_to_dict_keys_inplace(fwd.quantities_to_log, "0/", None)
        rev == soft_q_loss_with_sparse_rewards_2(logits_, logits, actions, rewards,
                                                 sequence_length)
        quantities_to_log_2_r ==
            add_prefix_to_dict_keys_inplace(rev.quantities_to_log, "1/", None)
        sym == IF coefficient # None
               THEN [raw_losses |-> mix(ValueOf(coefficient), fwd.raw_losses, rev.raw_losses, B, T),
                     quantities_to_log |->
                        unionize_dicts(<<quantities_to_log_2, quantities_to_log_2_r>>)]
               ELSE [raw_losses |-> fwd.raw_losses,
                     quantities_to_log |-> quantities_to_log_2]
        margin == large_margin_classification_loss(logits, actions, ValueOf(margin_constant))
    IN  IF margin_constant # None /\ margin_coefficient # None
        THEN [raw_losses |->
                 plus_scaled(sym.raw_losses, ValueOf(margin_coefficient), margin.raw_losses, B, T),
              quantities_to_log |->
                 unionize_dicts(<<sym.quantities_to_log,
                                  add_prefix_to_dict_keys_inplace(
                                      margin.quantities_to_log, "margin/", None)>>)]
        ELSE sym

soft_q_loss_with_sparse_rewards_3_3_reversed(logits, logits_, actions, rewards, sequence_length, coefficient) ==
    LET B == Batch(logits)
        T == Time(logits)
        fwd == soft_q_loss_with_sparse_rewards_3(logits, logits_, actions, rewards,
                                                 sequence_length)
        quantities_to_log_3 ==
            add_prefix_to_dict_keys_inplace(fwd.quantities_to_log, "0/", None)
        rev == soft_q_loss_with_sparse_rewards_3(logits_, logits, actions, rewards,
                                                 sequence_length)
        quantities_to_log_3_r ==
            add_prefix_to_dict_keys_inplace(rev.quantities_to_log, "1/", None)
    IN  IF coefficient # None
        THEN [raw_losses |-> mix(ValueOf(coefficient), fwd.raw_losses, rev.raw_losses, B, T),
              quantities_to_log |->
                 unionize_dicts(<<quantities_to_log_3, quantities_to_log_3_r>>)]
        ELSE [raw_losses |-> fwd.raw_losses,
              quantities_to_log |-> quantities_to_log_3]

\* (raw_losses_2 + raw_losses_3) / 2; the margin arguments keep their default
\* None on this path
soft_q_loss_with_sparse_rewards_2_2_reversed_3_3_reversed(logits, logits_, actions, rewards, sequence_length, coefficient) ==
    LET B == Batch(logits)
        T == Time(logits)
        r2 == soft_q_loss_with_sparse_rewards_2_2_reversed(logits, logits_, actions,
                  rewards, sequence_length, coefficient, None, None)
        r3 == soft_q_loss_with_sparse_rewards_3_3_reversed(logits, logits_, actions,
                  rewards, sequence_length, coefficient)
    IN  [raw_losses |->
            [i \in 0..(B - 1) |->
                [t \in 0..(T - 1) |->
                    (r2.raw_losses[i][t] + r3.raw_losses[i][t]) \div 2]],
         quantities_to_log |->
            unionize_dicts(<<add_prefix_to_dict_keys_inplace(r2.quantities_to_log, "v2/", None),
                             add_prefix_to_dict_keys_inplace(r3.quantities_to_log, "v3/", None)>>)]

----------------------------------------------------------------------------
(* soft_q_loss_with_sparse_rewards.  A call either raises or returns; the   *)
(* record it yields also names the argument tensors the call inspected and  *)
(* the loss functions and reductions it invoked, in order.                  *)

Implementations == {"v0", "v1", "v2", "v3", "v2_v2r", "v3_v3r", "v2_v2r_v3_v3r"}

NoException == "none"

Raised(exception, inspected) ==
    [raised |-> exception, inspected |-> inspected, invoked |-> <<>>,
     raw_losses |-> None, quantities_to_log |-> <<>>,
     loss |-> None, loss_log |-> <<>>]

\* the if/elif chain that binds _sql_loss_func, applied to the arguments
sql_loss_func(a) ==
    CASE a.implementation = "v0" ->
            soft_q_loss_with_sparse_rewards_0(a.logits, a.logits_, a.actions,
                                              a.rewards, a.sequence_length)
      [] a.implementation = "v1" ->
            soft_q_loss_with_sparse_rewards_1(a.logits, a.logits_, a.actions,
                                              a.rewards, a.sequence_length)
      [] a.implementation = "v2" ->
            soft_q_loss_with_sparse_rewards_2(a.logits, a.logits_, a.actions,
                                              a.rewards, a.sequence_length)
      [] a.implementation = "v3" ->
            soft_q_loss_with_sparse_rewards_3(a.logits, a.logits_, a.actions,
                                              a.rewards, a.sequence_length)
      [] a.implementation = "v2_v2r" ->
            soft_q_loss_with_sparse_rewards_2_2_reversed(a.logits, a.logits_, a.actions,
                a.rewards, a.sequence_length, a.coefficient,
                a.margin_constant, a.margin_coefficient)
      [] a.implementation = "v3_v3r" ->
            soft_q_loss_with_sparse_rewards_3_3_reversed(a.logits, a.logits_, a.actions,
                a.rewards, a.sequence_length, a.coefficient)
      [] a.implementation = "v2_v2r_v3_v3r" ->
            soft_q_loss_with_sparse_rewards_2_2_reversed_3_3_reversed(a.logits, a.logits_,
                a.actions, a.rewards, a.sequence_length, a.coefficient)

\* the variant, then the masked reductions of its raw losses
compute_loss(a, inspected) ==
    LET B == Batch(a.logits)
        T == Time(a.logits)
        out == sql_loss_func(a)
        loss == mask_and_reduce(out.raw_losses, a.sequence_length, FALSE, TRUE, B, T)
    IN  [raised |-> NoException,
         inspected |-> inspected \cup {"actions", "sequence_length"},
         invoked |-> <<a.implementation, "mask_and_reduce", "mask_and_reduce">>,
         raw_losses |-> out.raw_losses,
         quantities_to_log |-> out.quantities_to_log,
         loss |-> loss,
         loss_log |->
            <<Entry("loss", loss),
              Entry("sequence_length",
                    [num |-> SumTo(a.sequence_length, B), den |-> B]),
              Entry("loss-normalized",
                    mask_and_reduce(out.raw_losses, a.sequence_length, TRUE, FALSE, B, T))>>]

\* mutant: the rewards are type-checked before the implementation identifier
soft_q_loss_rewards_checked_first(a) ==
    IF ~a.rewards.is_tensor
    THEN Raised("TypeError", {"rewards"})
    ELSE IF a.implementation \notin Implementations
    THEN Raised("ValueError", {"rewards"})
    ELSE IF Len(a.rewards.shape) # 1
    THEN Raised("ValueError", {"rewards"})
    ELSE IF a.logits.shape[1] # a.rewards.shape[1]
    THEN Raised("ValueError", {"rewards", "logits"})
    ELSE IF a.logits.shape # a.logits_.shape
    THEN Raised("ValueError", {"rewards", "logits", "logits_"})
    ELSE compute_loss(a, {"rewards", "logits", "logits_"})

\* mutant: the shapes of logits and logits_ are compared after the variant ran
soft_q_loss_late_shape_check(a) ==
    IF a.implementation \notin Implementations
    THEN Raised("ValueError", {})
    ELSE IF ~a.rewards.is_tensor
    THEN Raised("TypeError", {"rewards"})
    ELSE IF Len(a.rewards.shape) # 1
    THEN Raised("ValueError", {"rewards"})
    ELSE IF a.logits.shape[1] # a.rewards.shape[1]
    THEN Raised("ValueError", {"rewards", "logits"})
    ELSE IF a.logits.shape # a.logits_.shape
    THEN [Raised("ValueError", {"rewards", "logits", "logits_"})
            EXCEPT !.invoked = <<a.implementation>>]
    ELSE compute_loss(a, {"rewards", "logits", "logits_"})

soft_q_loss_with_sparse_rewards(a) ==
    IF a.implementation \notin Implementations
    THEN Raised("ValueError", {})
    ELSE IF ~a.rewards.is_tensor
    THEN Raised("TypeError", {"rewards"})
    ELSE IF Len(a.rewards.shape) # 1
    THEN Raised("ValueError", {"rewards"})
    ELSE IF a.logits.shape[1] # a.rewards.shape[1]
    THEN Raised("ValueError", {"rewards", "logits"})
    ELSE IF a.logits.shape # a.logits_.shape
    THEN Raised("ValueError", {"rewards", "logits", "logits_"})
    ELSE compute_loss(a, {"rewards", "logits", "logits_"})

----------------------------------------------------------------------------
(* The inputs the loss functions are applied to *)

\* logit rows, in units of ln 2, whose exponentials sum to a power of two
RowValues == { <<0, 0, 1>>, <<2, 1, 1>> }

Vocab == Len(CHOOSE s \in RowValues : TRUE)

LogitRow(s) == [a \in 0..(Len(s) - 1) |-> Fix(s[a + 1])]

\* one position of a row: its logits, its target logits and the action taken
Cells ==
    { [lg |-> LogitRow(<<0, 0, 1>>), lg_ |-> LogitRow(<<2, 1, 1>>), act |-> 0],
      [lg |-> LogitRow(<<2, 1, 1>>), lg_ |-> LogitRow(<<0, 0, 1>>), act |-> 2],
      [lg |-> LogitRow(<<0, 0, 1>>), lg_ |-> LogitRow(<<0, 0, 1>>), act |-> 2],
      [lg |-> LogitRow(<<2, 1, 1>>), lg_ |-> LogitRow(<<2, 1, 1>>), act |-> 0] }

\* one row of a batch: its positions, its length and its reward
RowCases ==
    { [lg |-> [t \in 0..(MaxT - 1) |-> cells[t].lg],
       lg_ |-> [t \in 0..(MaxT - 1) |-> cells[t].lg_],
       act |-> [t \in 0..(MaxT - 1) |-> cells[t].act],
       sl |-> sl, r |-> Fix(1)] :
        cells \in [0..(MaxT - 1) -> Cells], sl \in 0..MaxT }

\* the second row of a batch of two
SecondRow ==
    [lg |-> [t \in 0..(MaxT - 1) |-> LogitRow(<<2, 1, 1>>)],
     lg_ |-> [t \in 0..(MaxT - 1) |-> LogitRow(<<0, 0, 1>>)],
     act |-> [t \in 0..(MaxT - 1) |-> 0],
     sl |-> 1,
     r |-> Fix(5)]

Batches == { <<c>> : c \in RowCases } \cup { <<c, SecondRow>> : c \in RowCases }

Tensor3(rows, field) ==
    [shape |-> <<Len(rows), MaxT, Vocab>>,
     data |-> [i \in 0..(Len(rows) - 1) |-> rows[i + 1][field]]]

Tensor1(vals) ==
    [is_tensor |-> TRUE, shape |-> <<Len(vals)>>,
     data |-> [i \in 0..(Len(vals) - 1) |-> vals[i + 1]]]

\* a valid argument list built from the rows of a batch
ArgsOf(rows, implementation, coefficient, margin_constant, margin_coefficient) ==
    [implementation |-> implementation,
     logits |-> Tensor3(rows, "lg"),
     logits_ |-> Tensor3(rows, "lg_"),
     actions |-> [i \in 0..(Len(rows) - 1) |-> rows[i + 1].act],
     rewards |-> Tensor1([i \in 1..Len(rows) |-> rows[i].r]),
     sequence_length |-> [i \in 0..(Len(rows) - 1) |-> rows[i + 1].sl],
     coefficient |-> coefficient,
     margin_constant |-> margin_constant,
     margin_coefficient |-> margin_coefficient]

ImplementationIds == Implementations \cup {"v99"}

Coefficients == {None} \cup { Some(k * (Den \div CoefDen)) : k \in 1..CoefDen }

\* (margin_constant, margin_coefficient)
Margins == { <<None, None>>, <<Some(Fix(1)), None>>, <<Some(Fix(1)), Some(One \div 2)>> }

\* rewards that are no tensor (a list), of rank 0, of rank 2, of the wrong length
BadRewards(B) ==
    { [is_tensor |-> FALSE, shape |-> <<>>, data |-> <<>>],
      [is_tensor |-> TRUE, shape |-> <<>>, data |-> <<>>],
      [is_tensor |-> TRUE, shape |-> <<B, 1>>, data |-> <<>>],
      Tensor1([i \in 1..(B + 1) |-> Fix(1)]) }

\* target logits of another shape: one more time step
BadLogits(x) ==
    [shape |-> <<x.shape[1], x.shape[2] + 1, x.shape[3]>>,
     data |-> [i \in 0..(x.shape[1] - 1) |->
                 [t \in 0..x.shape[2] |-> x.data[i][IF t < x.shape[2] THEN t ELSE 0]]]]

FewBatches == { <<SecondRow>>, <<SecondRow, SecondRow>> }

\* the arguments of a batch with its rewards and target logits replaced
WithInputs(rows, implementation, rewards, logits_) ==
    [ArgsOf(rows, implementation, None, None, None)
        EXCEPT !.rewards = rewards, !.logits_ = logits_]

----------------------------------------------------------------------------
(* The loss functions as a state machine: a call on arguments drawn from    *)
(* LossArgs, then the same arguments with every position at or beyond the   *)
(* sequence length overwritten, and a second call.                          *)

NoResult == Raised("not called", {})

\* no helper function is being called
FunctionsOff ==
    /\ fcall = <<>>
    /\ fres = <<>>
    /\ fphase = "off"

\* no DDPO trainer is running
DDPOOff ==
    /\ tracker = <<>>
    /\ ddpo = <<>>

\* no trainer has been constructed
TrainerOff ==
    /\ trainer = <<>>
    /\ pval = <<>>
    /\ grad = <<>>
    /\ optimizer = <<>>
    /\ nsteps = 0
    /\ nsyncs = 0
    /\ last = <<>>
    /\ tphase = "off"

\* every position t >= sequence_length[i] of logits, logits_ and actions
\* overwritten with a fixed filler
Repadded(a) ==
    LET B == Batch(a.logits)
        T == Time(a.logits)
        fill(x, filler) ==
            [i \in 0..(B - 1) |->
                [t \in 0..(T - 1) |->
                    IF sequence_mask(a.sequence_length, i, t) THEN x[i][t] ELSE filler]]
        filler_row == LogitRow(<<2, 1, 1>>)
    IN  [a EXCEPT !.logits.data = fill(a.logits.data, filler_row),
                  !.logits_.data = fill(a.logits_.data, filler_row),
                  !.actions = fill(a.actions, 0)]

\* valid arguments of every shape the bounds allow, and arguments with bad
\* rewards or mismatched target logits
InitLoss ==
    /\ \/ \E rows \in Batches, impl \in ImplementationIds,
             c \in Coefficients, m \in Margins :
            largs = ArgsOf(rows, impl, c, m[1], m[2])
       \/ \E rows \in FewBatches, impl \in ImplementationIds :
            \E r \in BadRewards(Len(rows)) \cup {Tensor1([i \in 1..Len(rows) |-> rows[i].r])},
               l \in {Tensor3(rows, "lg_"), BadLogits(Tensor3(rows, "lg_"))} :
                largs = WithInputs(rows, impl, r, l)
    /\ lres = NoResult
    /\ lres2 = NoResult
    /\ lphase = "ready"
    /\ TrainerOff
    /\ FunctionsOff
    /\ DDPOOff

CallLoss ==
    /\ lphase = "ready"
    /\ lres' = soft_q_loss_with_sparse_rewards(largs)
    /\ lphase' = "called"
    /\ UNCHANGED <<largs, lres2>>
    /\ UNCHANGED <<trainerVars, functionVars, ddpoVars>>

Repad ==
    /\ lphase = "called"
    /\ lres.raised = NoException
    /\ Repadded(largs) # largs
    /\ largs' = Repadded(largs)
    /\ lphase' = "repadded"
    /\ UNCHANGED <<lres, lres2>>
    /\ UNCHANGED <<trainerVars, functionVars, ddpoVars>>

CallLossAgain ==
    /\ lphase = "repadded"
    /\ lres2' = soft_q_loss_with_sparse_rewards(largs)
    /\ lphase' = "compared"
    /\ UNCHANGED <<largs, lres>>
    /\ UNCHANGED <<trainerVars, functionVars, ddpoVars>>

NextLoss == CallLoss \/ Repad \/ CallLossAgain

SpecLoss == InitLoss /\ [][NextLoss]_vars

----------------------------------------------------------------------------
(* Claims about the loss functions, checked under SpecLoss *)

Called == lphase = "called"

RewardsValid(a) ==
    /\ a.rewards.is_tensor
    /\ Len(a.rewards.shape) = 1
    /\ a.rewards.shape[1] = a.logits.shape[1]

\* C1: a call with an implementation identifier outside the seven known ones
\* raises ValueError, and it does so with no argument tensor inspected and no
\* variant loss function or reduction invoked, whatever the other arguments.
C1_UnknownImplementationFailsFirst ==
    (lphase # "ready" /\ largs.implementation \notin Implementations) =>
        /\ lres.raised = "ValueError"
        /\ lres.inspected = {}
        /\ lres.invoked = <<>>

\* the unknown identifier together with rewards that are no tensor
C1_Witness ==
    /\ Called
    /\ largs.implementation = "v99"
    /\ ~largs.rewards.is_tensor
    /\ largs.logits.shape # largs.logits_.shape
    /\ lres.raised = "ValueError"

\* C2: with a valid identifier, rewards that are no tensor raise TypeError,
\* tensor rewards of rank other than 1 or of a length other than the batch
\* size raise ValueError, and (the rewards being a tensor) logits and logits_
\* of different shapes raise ValueError; whenever the call raises, no variant
\* loss function and no masked reduction has been invoked.
C2_InvalidInputsRejectedBeforeComputation ==
    (Called /\ largs.implementation \in Implementations) =>
        /\ ~largs.rewards.is_tensor => lres.raised = "TypeError"
        /\ (largs.rewards.is_tensor /\ ~RewardsValid(largs)) => lres.raised = "ValueError"
        /\ (largs.rewards.is_tensor /\ largs.logits.shape # largs.logits_.shape)
              => lres.raised = "ValueError"
        /\ lres.raised # NoException => lres.invoked = <<>>
        /\ (RewardsValid(largs) /\ largs.logits.shape = largs.logits_.shape)
              => lres.raised = NoException

\* valid rewards, target logits of another shape
C2_Witness ==
    /\ Called
    /\ largs.implementation \in Implementations
    /\ RewardsValid(largs)
    /\ largs.logits.shape # largs.logits_.shape
    /\ lres.raised = "ValueError"
    /\ lres.invoked = <<>>

\* C8: in variant V2, for every row i with 1 <= sequence_length[i] <= T, the
\* target advantage at position sequence_length[i]-1 is
\* rewards[i] - V_target[i, sequence_length[i]-1], and at every earlier
\* position t it is V_target[i, t+1] - V_target[i, t].
C8_V2TerminalAdvantage ==
    (Called /\ largs.implementation = "v2" /\ lres.raised = NoException) =>
        LET A_ == DictValue(lres.quantities_to_log, "A_")
            V_ == logsumexp_last(largs.logits_)
            sl == largs.sequence_length
        IN  \A i \in 0..(Batch(largs.logits) - 1) :
                (1 <= sl[i] /\ sl[i] <= Time(largs.logits)) =>
                    /\ A_[i][sl[i] - 1] = largs.rewards.data[i] - V_[i][sl[i] - 1]
                    /\ \A t \in 0..(sl[i] - 2) : A_[i][t] = V_[i][t + 1] - V_[i][t]

\* a batch of two rows, one of full length and one of length 1, whose
\* target values differ along the first row
C8_Witness ==
    /\ Called
    /\ largs.implementation = "v2"
    /\ lres.raised = NoException
    /\ Batch(largs.logits) = 2
    /\ largs.sequence_length[0] = Time(largs.logits)
    /\ largs.sequence_length[1] = 1
    /\ DictValue(lres.quantities_to_log, "A_")[0][0] # 0

\* C9: for every variant, a second call on arguments that agree with the
\* first call's on every position below the sequence length, and differ at or
\* beyond it, returns the same loss.
C9_LossIgnoresPadding ==
    lphase = "compared" =>
        /\ lres2.raised = NoException
        /\ lres2.loss = lres.loss

\* two calls that differ in the padding, with a loss that is not zero
C9_Witness ==
    /\ lphase = "compared"
    /\ largs.implementation = "v2_v2r_v3_v3r"
    /\ \E i \in 0..(Batch(largs.logits) - 1) : largs.sequence_length[i] = 1
    /\ lres.loss.num # 0

\* the raw losses of V2 (for v2_v2r) or V3 (for v3_v3r) with x as the current
\* and y as the target logits
VariantRawLosses(a, x, y) ==
    IF a.implementation = "v2_v2r"
    THEN soft_q_loss_with_sparse_rewards_2(x, y, a.actions, a.rewards,
                                           a.sequence_length).raw_losses
    ELSE soft_q_loss_with_sparse_rewards_3(x, y, a.actions, a.rewards,
                                           a.sequence_length).raw_losses

MarginConfigured(a) == a.margin_constant # None /\ a.margin_coefficient # None

ReversedCalled ==
    /\ Called
    /\ largs.implementation \in {"v2_v2r", "v3_v3r"}
    /\ lres.raised = NoException

\* c * L(logits, logits_) + (1 - c) * L(logits_, logits) at position (i, t)
Symmetrized(a, i, t) ==
    MulFix(ValueOf(a.coefficient), VariantRawLosses(a, a.logits, a.logits_)[i][t])
    + MulFix(One - ValueOf(a.coefficient), VariantRawLosses(a, a.logits_, a.logits)[i][t])

\* C10 as stated: for v2_v2r and v3_v3r, with a coefficient c the raw loss is
\* c * L(logits, logits_) + (1 - c) * L(logits_, logits) at every position;
\* with coefficient None and no margin term it is L(logits, logits_).
C10_AsStated ==
    ReversedCalled =>
        \A i \in 0..(Batch(largs.logits) - 1), t \in 0..(Time(largs.logits) - 1) :
            IF largs.coefficient # None
            THEN lres.raw_losses[i][t] = Symmetrized(largs, i, t)
            ELSE (~MarginConfigured(largs) \/ largs.implementation = "v3_v3r") =>
                    lres.raw_losses[i][t]
                        = VariantRawLosses(largs, largs.logits, largs.logits_)[i][t]

\* the margin term v2_v2r adds when both margin values are configured
MarginTerm(a, i, t) ==
    IF a.implementation = "v2_v2r" /\ MarginConfigured(a)
    THEN MulFix(ValueOf(a.margin_coefficient),
                large_margin_classification_loss(
                    a.logits, a.actions, ValueOf(a.margin_constant)).raw_losses[i][t])
    ELSE 0

\* C10, amended: the raw loss of v2_v2r and v3_v3r is the symmetrized loss
\* (with a coefficient) or the forward loss (with coefficient None), and on
\* v2_v2r with both margin values configured the margin term is added to it.
C10_ReversedSymmetrization ==
    ReversedCalled =>
        \A i \in 0..(Batch(largs.logits) - 1), t \in 0..(Time(largs.logits) - 1) :
            lres.raw_losses[i][t]
                = (IF largs.coefficient # None
                   THEN Symmetrized(largs, i, t)
                   ELSE VariantRawLosses(largs, largs.logits, largs.logits_)[i][t])
                  + MarginTerm(largs, i, t)

\* a symmetrized call whose forward and reversed losses differ
C10_Witness ==
    /\ ReversedCalled
    /\ largs.coefficient # None
    /\ ValueOf(largs.coefficient) # One
    /\ \E i \in 0..(Batch(largs.logits) - 1), t \in 0..(Time(largs.logits) - 1) :
          VariantRawLosses(largs, largs.logits, largs.logits_)[i][t]
              # VariantRawLosses(largs, largs.logits_, largs.logits)[i][t]

----------------------------------------------------------------------------
(* SoftQLearningTrainer.  The two networks are external; the model keeps    *)
(* the values of their parameters, two per network, and draws what their    *)
(* forward passes and the reward function return from ForwardOutputs.       *)

\* self.model.parameters() and self.target_model.parameters(), in order
ModelParameters == <<"w1", "w2">>

TargetParameters == <<"w1_", "w2_">>

ParamIds == {ModelParameters[j] : j \in DOMAIN ModelParameters}
                \cup {TargetParameters[j] : j \in DOMAIN TargetParameters}

\* parameter values are multiples of ParamUnit, which keeps every Polyak
\* average of the run exact
ParamUnit == Den ^ (MaxSteps + MaxSyncCalls)

\* every parameter of the two networks requires a gradient
requires_grad(p) == p \in ParamIds

\* mutant: the optimizer is built over the parameters of both networks
all_params_trainable ==
    SelectSeq(ModelParameters \o TargetParameters, requires_grad)

\* trainable_params = [p for p in model.parameters() if p.requires_grad]
trainable_params == SelectSeq(ModelParameters, requires_grad)

SyncMethods == {"polyak", "copy", "hard"}

\* the values of sql_loss_impl the trainer is built with
TrainerImplementations == ImplementationIds

MixStrategies == {"alternate", "mix"}

LearningRates == { k * (Den \div CoefDen) : k \in 1..CoefDen }

\* (sql_loss_coefficients, sql_loss_margin_constant, sql_loss_margin_coefficient)
LossOptions ==
    { <<None, None, None>>,
      <<None, Some(Fix(1)), None>>,
      <<Some(One \div 2), Some(Fix(1)), Some(One \div 2)>> }

\* the attributes __init__ sets; it sets no target_sync_steps
init_attributes(sql_loss_impl, target_update_method, target_learning_rate, mix_strategy, options) ==
    [target_learning_rate |-> target_learning_rate,
     target_sync_method |-> target_update_method,
     mix_strategy |-> mix_strategy,
     sql_loss_impl |-> sql_loss_impl,
     sql_loss_coefficients |-> options[1],
     sql_loss_margin_constant |-> options[2],
     sql_loss_margin_coefficient |-> options[3]]

\* the parameter values after construction: the target network is a deep
\* copy of the model (target_model None) or a network of its own
initial_values(target_model_empty) ==
    [p \in ParamIds |->
        CASE p = "w1" -> 0
          [] p = "w2" -> 2 * ParamUnit
          [] p = "w1_" -> IF target_model_empty THEN 0 ELSE 4 * ParamUnit
          [] p = "w2_" -> IF target_model_empty THEN 2 * ParamUnit ELSE 6 * ParamUnit]

\* torch.optim.Adam(trainable_params, lr=target_learning_rate): per parameter,
\* the number of updates and the gradient the last update was computed from
new_optimizer(params, lr) ==
    [params |-> {params[j] : j \in DOMAIN params},
     lr |-> lr,
     state |-> [p \in {params[j] : j \in DOMAIN params} |-> [step |-> 0, grad |-> {}]]]

HasAttr(obj, name) == name \in DOMAIN obj

\* mutant: the weights of the running average are exchanged
polyak_update_swapped(lr, param_, param) ==
    MulFix(lr, param_) + MulFix(One - lr, param)

\* (1 - target_learning_rate) * param_ + target_learning_rate * param
polyak_update(lr, param_, param) ==
    MulFix(One - lr, param_) + MulFix(lr, param)

TargetIndex(p) == CHOOSE j \in DOMAIN TargetParameters : TargetParameters[j] = p

IsTarget(p) == \E j \in DOMAIN TargetParameters : TargetParameters[j] = p

\* sync_target_model(sync_type): the parameter values it leaves, or the error
sync_target_model(tr, pv, sync_type) ==
    IF sync_type = "copy"
    THEN [raised |-> NoException,
          pval |-> [p \in ParamIds |->
                      IF IsTarget(p) THEN pv[ModelParameters[TargetIndex(p)]] ELSE pv[p]]]
    ELSE IF sync_type = "polyak"
    THEN [raised |-> NoException,
          pval |-> [p \in ParamIds |->
                      IF IsTarget(p)
                      THEN polyak_update(tr.target_learning_rate, pv[p],
                                         pv[ModelParameters[TargetIndex(p)]])
                      ELSE pv[p]]]
    ELSE [raised |-> "ValueError", pval |-> pv]

\* the synchronization at the head of step(): what it raised, the parameter
\* values it leaves, and the synchronizer calls it made
step_sync(tr, pv, step) ==
    IF tr.target_sync_method = "polyak"
    THEN [raised |-> NoException,
          pval |-> sync_target_model(tr, pv, "polyak").pval,
          trace |-> <<"sync_polyak">>]
    ELSE IF tr.target_sync_method = "copy"
    THEN IF ~HasAttr(tr, "target_sync_steps")
         THEN [raised |-> "AttributeError", pval |-> pv, trace |-> <<>>]
         ELSE IF step % tr.target_sync_steps = 0
         THEN [raised |-> NoException,
               pval |-> sync_target_model(tr, pv, "copy").pval,
               trace |-> <<"sync_copy">>]
         ELSE [raised |-> NoException, pval |-> pv, trace |-> <<>>]
    ELSE [raised |-> NoException, pval |-> pv, trace |-> <<>>]

candidate_modes == <<"SQL_OFF", "SQL_ON">>

\* the modes of a step; no modes are bound under any other mix_strategy
modes_bound(tr) == tr.mix_strategy \in {"alternate", "mix"}

\* mutant: on-policy first
step_modes_on_policy_first(tr, step) ==
    IF tr.mix_strategy = "mix" THEN <<"SQL_ON", "SQL_OFF">>
    ELSE <<candidate_modes[((step + 1) % Len(candidate_modes)) + 1]>>

step_modes(tr, step) ==
    IF tr.mix_strategy = "mix" THEN candidate_modes
    ELSE <<candidate_modes[(step % Len(candidate_modes)) + 1]>>

\* the one row of a training batch: its margin loss is not zero
TrainingRow ==
    [lg |-> [t \in 0..(MaxT - 1) |-> LogitRow(IF t = 0 THEN <<0, 0, 1>> ELSE <<2, 1, 1>>)],
     lg_ |-> [t \in 0..(MaxT - 1) |-> LogitRow(IF t = 0 THEN <<2, 1, 1>> ELSE <<0, 0, 1>>)],
     act |-> [t \in 0..(MaxT - 1) |-> IF t = 0 THEN 0 ELSE 2],
     sl |-> MaxT,
     r |-> Fix(1)]

\* what the networks and the reward function return for one mode: the two
\* logits, the actions, the sequence lengths, the rewards and the rewards log
ForwardOutputs ==
    LET rows == <<TrainingRow>>
        good == [logits |-> Tensor3(rows, "lg"), logits_ |-> Tensor3(rows, "lg_"),
                 actions |-> [i \in 0..0 |-> rows[i + 1].act],
                 rewards |-> Tensor1(<<rows[1].r>>),
                 sequence_length |-> [i \in 0..0 |-> rows[i + 1].sl],
                 rewards_log |-> <<Entry("score", [num |-> rows[1].r, den |-> 1]),
                                   Entry("raw", [num |-> Fix(9), den |-> 1])>>]
    IN  { good,
          [good EXCEPT !.logits_ = BadLogits(good.logits_)],
          [good EXCEPT !.rewards = [is_tensor |-> FALSE, shape |-> <<>>, data |-> <<>>]] }

\* tensor.mean() of a rank-1 tensor, as an exact fraction
tensor_mean(x) == [num |-> SumTo(x.data, x.shape[1]), den |-> x.shape[1]]

\* mutant: the margin values are passed to the loss function in every mode
forward_SQL_margin_in_every_mode(tr, mode, out) ==
    LET dict_list(res) ==
            <<add_prefix_to_dict_keys_inplace(out.rewards_log, mode \o "/rewards/", None),
              add_prefix_to_dict_keys_inplace(res.loss_log, mode \o "/", None),
              <<Entry(mode \o "/rewards/raw", tensor_mean(out.rewards)),
                Entry(mode \o "/rewards/shaped", tensor_mean(out.rewards))>> >>
        returned(res) ==
            IF res.raised # NoException
            THEN [raised |-> res.raised, mode |-> mode, out |-> out,
                  raw_losses |-> None, loss |-> None, dicts |-> <<>>, log |-> <<>>]
            ELSE [raised |-> NoException,
                  mode |-> mode,
                  out |-> out,
                  raw_losses |-> res.raw_losses,
                  loss |-> res.loss,
                  dicts |-> dict_list(res),
                  log |-> unionize_dicts(dict_list(res))]
    IN  With(soft_q_loss_with_sparse_rewards(
                   [implementation |-> tr.sql_loss_impl,
                    logits |-> out.logits,
                    logits_ |-> out.logits_,
                    actions |-> out.actions,
                    rewards |-> out.rewards,
                    sequence_length |-> out.sequence_length,
                    coefficient |-> tr.sql_loss_coefficients,
                    margin_constant |-> tr.sql_loss_margin_constant,
                    margin_coefficient |-> tr.sql_loss_margin_coefficient]),
             returned)

\* _forward_SQL(mode, batch), given what the networks and the reward function
\* return: the loss and its log, or the error the loss function raised
forward_SQL(tr, mode, out) ==
    LET dict_list(res) ==
            <<add_prefix_to_dict_keys_inplace(out.rewards_log, mode \o "/rewards/", None),
              add_prefix_to_dict_keys_inplace(res.loss_log, mode \o "/", None),
              <<Entry(mode \o "/rewards/raw", tensor_mean(out.rewards)),
                Entry(mode \o "/rewards/shaped", tensor_mean(out.rewards))>> >>
        returned(res) ==
            IF res.raised # NoException
            THEN [raised |-> res.raised, mode |-> mode, out |-> out,
                  raw_losses |-> None, loss |-> None, dicts |-> <<>>, log |-> <<>>]
            ELSE [raised |-> NoException,
                  mode |-> mode,
                  out |-> out,
                  raw_losses |-> res.raw_losses,
                  loss |-> res.loss,
                  dicts |-> dict_list(res),
                  log |-> unionize_dicts(dict_list(res))]
    IN  With(soft_q_loss_with_sparse_rewards(
                   [implementation |-> tr.sql_loss_impl,
                    logits |-> out.logits,
                    logits_ |-> out.logits_,
                    actions |-> out.actions,
                    rewards |-> out.rewards,
                    sequence_length |-> out.sequence_length,
                    coefficient |-> tr.sql_loss_coefficients,
                    margin_constant |->
                        IF mode = "SQL_OFF" THEN tr.sql_loss_margin_constant ELSE None,
                    margin_coefficient |->
                        IF mode = "SQL_OFF" THEN tr.sql_loss_margin_coefficient ELSE None]),
             returned)

RECURSIVE forward_loop(_, _, _, _, _)
\* the loop over modes from modes[n] on: the first error ends it
forward_loop(tr, modes, outs, n, acc) ==
    IF n > Len(modes) THEN acc
    ELSE LET iteration(f) ==
                 IF f.raised # NoException
                 THEN [acc EXCEPT !.raised = f.raised,
                                  !.trace = Append(@, "forward_" \o modes[n])]
                 ELSE forward_loop(tr, modes, outs, n + 1,
                          [acc EXCEPT !.trace = Append(@, "forward_" \o modes[n]),
                                      !.forwards = Append(@, f),
                                      !.loss_list = Append(@, f.loss),
                                      !.additional_info_list = Append(@, f.log)])
         IN  With(forward_SQL(tr, modes[n], outs[n]), iteration)

RECURSIVE ProductOfDens(_, _)
ProductOfDens(fs, n) == IF n = 0 THEN 1 ELSE fs[n].den * ProductOfDens(fs, n - 1)

\* torch.mean(torch.stack(loss_list)), as an exact fraction
mean_of(loss_list) ==
    LET D == ProductOfDens(loss_list, Len(loss_list))
    IN  [num |-> SumTo([j \in 0..(Len(loss_list) - 1) |->
                          (loss_list[j + 1].num * D) \div loss_list[j + 1].den],
                       Len(loss_list)),
         den |-> Len(loss_list) * D]

\* loss.backward(): the step's gradient is added to the .grad of every
\* parameter the loss depends on, those of the target network included (its
\* forward pass is not run under no_grad)
backward(gr, step) ==
    [p \in ParamIds |-> IF requires_grad(p) THEN gr[p] \cup {step} ELSE gr[p]]

\* optimizer.step(): every parameter of the optimizer that has a gradient
\* moves by an amount computed from that gradient
optimizer_step_values(opt, pv, gr, delta) ==
    [p \in ParamIds |-> IF p \in opt.params /\ gr[p] # {} THEN pv[p] + delta ELSE pv[p]]

optimizer_step_state(opt, gr) ==
    [opt EXCEPT !.state =
        [p \in opt.params |->
            IF gr[p] # {}
            THEN [step |-> opt.state[p].step + 1, grad |-> gr[p]]
            ELSE opt.state[p]]]

\* the amounts an update moves a parameter by
Deltas == {ParamUnit, 0 - ParamUnit}

NoCall ==
    [kind |-> "none", step |-> 0, raised |-> NoException, trace |-> <<>>,
     pre_pval |-> <<>>, pre_grad |-> <<>>, pre_optimizer |-> <<>>,
     synced |-> <<>>, forwards |-> <<>>, loss |-> None, batch_log |-> <<>>]

\* step(batch, step): the state it leaves and the record of the call
step_result(tr, pv, gr, opt, step, outs, delta) ==
    LET call == [NoCall EXCEPT !.kind = "step", !.step = step, !.pre_pval = pv,
                               !.pre_grad = gr, !.pre_optimizer = opt]
        sync == step_sync(tr, pv, step)
        failed(raised, trace, values) ==
            [pval |-> values, grad |-> gr, optimizer |-> opt,
             last |-> [call EXCEPT !.raised = raised, !.trace = trace, !.synced = values]]
        grads == backward(gr, step)
        after_forward(fwd) ==
            IF fwd.raised # NoException
            THEN failed(fwd.raised, fwd.trace, sync.pval)
            ELSE [pval |-> optimizer_step_values(opt, sync.pval, grads, delta),
                  grad |-> grads,
                  optimizer |-> optimizer_step_state(opt, grads),
                  last |-> [call EXCEPT !.trace = fwd.trace \o <<"backward", "optimizer_step">>,
                                        !.synced = sync.pval,
                                        !.forwards = fwd.forwards,
                                        !.loss = mean_of(fwd.loss_list),
                                        !.batch_log = unionize_dicts(fwd.additional_info_list)]]
    IN  IF sync.raised # NoException
        THEN failed(sync.raised, sync.trace, sync.pval)
        ELSE IF ~modes_bound(tr)
        THEN failed("UnboundLocalError", sync.trace, sync.pval)
        ELSE With(forward_loop(tr, step_modes(tr, step), outs, 1,
                      [raised |-> NoException, trace |-> sync.trace, forwards |-> <<>>,
                       loss_list |-> <<>>, additional_info_list |-> <<>>]),
                  after_forward)

\* no loss function is being applied
LossOff ==
    /\ largs = <<>>
    /\ lres = <<>>
    /\ lres2 = <<>>
    /\ lphase = "off"

Init ==
    /\ LossOff
    /\ FunctionsOff
    /\ DDPOOff
    /\ \E impl \in TrainerImplementations, method \in SyncMethods, lr \in LearningRates,
          strategy \in MixStrategies, options \in LossOptions, target_model_empty \in BOOLEAN :
            /\ trainer = init_attributes(impl, method, lr, strategy, options)
            /\ pval = initial_values(target_model_empty)
            /\ optimizer = new_optimizer(trainable_params, lr)
    /\ grad = [p \in ParamIds |-> {}]
    /\ nsteps = 0
    /\ nsyncs = 0
    /\ last = NoCall
    /\ tphase = "training"

\* the training loop calls step(batch, nsteps); an error aborts the loop
Step ==
    /\ tphase = "training"
    /\ nsteps < MaxSteps
    /\ \E outs \in [1..Len(step_modes(trainer, nsteps)) -> ForwardOutputs], delta \in Deltas :
          \E r \in {step_result(trainer, pval, grad, optimizer, nsteps, outs, delta)} :
              /\ pval' = r.pval
              /\ grad' = r.grad
              /\ optimizer' = r.optimizer
              /\ last' = r.last
              /\ tphase' = IF r.last.raised = NoException THEN "training" ELSE "aborted"
    /\ nsteps' = nsteps + 1
    /\ UNCHANGED <<trainer, nsyncs>>
    /\ UNCHANGED <<lossVars, functionVars, ddpoVars>>

\* a direct call of sync_target_model(sync_type)
SyncTargetModel ==
    /\ tphase = "training"
    /\ nsyncs < MaxSyncCalls
    /\ \E sync_type \in SyncMethods :
          \E r \in {sync_target_model(trainer, pval, sync_type)} :
              /\ pval' = r.pval
              /\ last' = [NoCall EXCEPT !.kind = "sync", !.raised = r.raised,
                                        !.trace = <<"sync_" \o sync_type>>,
                                        !.pre_pval = pval, !.pre_grad = grad,
                                        !.pre_optimizer = optimizer, !.synced = r.pval]
              /\ tphase' = IF r.raised = NoException THEN "training" ELSE "aborted"
    /\ nsyncs' = nsyncs + 1
    /\ UNCHANGED <<trainer, grad, optimizer, nsteps>>
    /\ UNCHANGED <<lossVars, functionVars, ddpoVars>>

Next == Step \/ SyncTargetModel

Spec == Init /\ [][Next]_vars

----------------------------------------------------------------------------
(* Claims about SoftQLearningTrainer, under Spec.                           *)

StepCalled == last.kind = "step"

TraceCount(trace, event) == Cardinality({ j \in DOMAIN trace : trace[j] = event })

SyncEvents == {"sync_polyak", "sync_copy"}

ForwardEvents == { "forward_" \o candidate_modes[j] : j \in DOMAIN candidate_modes }

ReachedForward(trace) == \E j \in DOMAIN trace : trace[j] \in ForwardEvents

ConfigurationErrors == {"ValueError", "TypeError"}

\* C3 as stated: a step() of a trainer whose target_update_method is a string
\* other than "copy" and "polyak" fails with the synchronizer's ValueError.
C3_AsStated ==
    (StepCalled /\ trainer.target_sync_method \notin {"copy", "polyak"})
        => last.raised = "ValueError"

\* C4 as stated, in what it says of every step: in "copy" mode a step leaves
\* each target parameter either overwritten with its trainable parameter or
\* unchanged before the forward pass, and proceeds to the loss computation.
C4_AsStated ==
    (StepCalled /\ trainer.target_sync_method = "copy")
        => /\ ReachedForward(last.trace)
           /\ \A j \in DOMAIN TargetParameters :
                last.synced[TargetParameters[j]] \in
                    {last.pre_pval[TargetParameters[j]], last.pre_pval[ModelParameters[j]]}

\* C5: in "polyak" mode every step() applies, exactly once and before the
\* forward pass, target := (1 - alpha) * target + alpha * trainable to every
\* parameter pair, from the target and trainable values the step started with,
\* alpha being target_learning_rate; the trainable values are left alone.
C5_PolyakEveryStep ==
    (StepCalled /\ trainer.target_sync_method = "polyak")
        => /\ TraceCount(last.trace, "sync_polyak") = 1
           /\ last.trace[1] = "sync_polyak"
           /\ \A j \in DOMAIN TargetParameters :
                LET alpha == trainer.target_learning_rate
                    target == last.pre_pval[TargetParameters[j]]
                    trainable == last.pre_pval[ModelParameters[j]]
                IN  /\ ((Den - alpha) * target) % Den = 0
                    /\ (alpha * trainable) % Den = 0
                    /\ last.synced[TargetParameters[j]] =
                          ((Den - alpha) * target) \div Den + (alpha * trainable) \div Den
                    /\ last.synced[ModelParameters[j]] = trainable

\* a later step in "polyak" mode whose average lies strictly between the
\* target and the trainable value
C5_Witness ==
    /\ StepCalled
    /\ trainer.target_sync_method = "polyak"
    /\ last.step >= 1
    /\ last.raised = NoException
    /\ \E j \in DOMAIN TargetParameters :
          /\ last.synced[TargetParameters[j]] # last.pre_pval[TargetParameters[j]]
          /\ last.synced[TargetParameters[j]] # last.pre_pval[ModelParameters[j]]

\* C6: a step() leaves every target parameter at the value the synchronizer
\* stage gave it, which is the value before the step when the step made no
\* synchronizer call; the optimizer holds no target parameter.
C6_TargetChangesOnlyBySync ==
    StepCalled
        => \A j \in DOMAIN TargetParameters :
              /\ pval[TargetParameters[j]] = last.synced[TargetParameters[j]]
              /\ (\A e \in SyncEvents : TraceCount(last.trace, e) = 0)
                    => pval[TargetParameters[j]] = last.pre_pval[TargetParameters[j]]
              /\ TargetParameters[j] \notin optimizer.params

\* a completed step with a reversed variant and a supplied target network:
\* the optimizer moved the trainable parameters, the target holds gradients
C6_Witness ==
    /\ StepCalled
    /\ last.raised = NoException
    /\ trainer.sql_loss_impl = "v2_v2r"
    /\ last.pre_pval["w1_"] # last.pre_pval["w1"]
    /\ \A j \in DOMAIN ModelParameters :
          pval[ModelParameters[j]] # last.pre_pval[ModelParameters[j]]
    /\ \A j \in DOMAIN TargetParameters : grad[TargetParameters[j]] # {}

\* C7 as stated: a step() that fails with a configuration error leaves the
\* parameters of both networks and the optimizer state as they were before it.
C7_AsStated ==
    (StepCalled /\ last.raised \in ConfigurationErrors)
        => /\ pval = last.pre_pval
           /\ optimizer = last.pre_optimizer

\* the arguments of a forward call's loss, without margin values
LossArgsOf(tr, f) ==
    [implementation |-> tr.sql_loss_impl,
     logits |-> f.out.logits,
     logits_ |-> f.out.logits_,
     actions |-> f.out.actions,
     rewards |-> f.out.rewards,
     sequence_length |-> f.out.sequence_length,
     coefficient |-> tr.sql_loss_coefficients,
     margin_constant |-> None,
     margin_coefficient |-> None]

\* the raw loss of a forward call at position (i, t) without a margin term
WithoutMargin(tr, f, i, t) ==
    IF tr.sql_loss_impl = "v2_v2r"
    THEN IF tr.sql_loss_coefficients # None
         THEN Symmetrized(LossArgsOf(tr, f), i, t)
         ELSE VariantRawLosses(LossArgsOf(tr, f), f.out.logits, f.out.logits_)[i][t]
    ELSE sql_loss_func(LossArgsOf(tr, f)).raw_losses[i][t]

\* margin_coefficient * large_margin_classification_loss at position (i, t)
ConfiguredMarginTerm(tr, f, i, t) ==
    MulFix(ValueOf(tr.sql_loss_margin_coefficient),
           large_margin_classification_loss(
               f.out.logits, f.out.actions,
               ValueOf(tr.sql_loss_margin_constant)).raw_losses[i][t])

MarginApplies(tr, f) ==
    /\ tr.sql_loss_impl = "v2_v2r"
    /\ f.mode = "SQL_OFF"
    /\ tr.sql_loss_margin_constant # None
    /\ tr.sql_loss_margin_coefficient # None

\* C11: the raw loss of every forward call of a step is the loss without a
\* margin term, plus margin_coefficient * large_margin_classification_loss
\* exactly when the implementation is v2_v2r, the mode is SQL_OFF and both
\* margin values are configured; in every other case nothing is added.
C11_MarginOnlyOnV2ReversedOffPolicy ==
    StepCalled =>
        \A j \in DOMAIN last.forwards :
            \A i \in 0..(Batch(last.forwards[j].out.logits) - 1),
               t \in 0..(Time(last.forwards[j].out.logits) - 1) :
                last.forwards[j].raw_losses[i][t]
                    = WithoutMargin(trainer, last.forwards[j], i, t)
                      + (IF MarginApplies(trainer, last.forwards[j])
                         THEN ConfiguredMarginTerm(trainer, last.forwards[j], i, t)
                         ELSE 0)

\* a v2_v2r step in "mix" mode with both margin values configured: the
\* margin term is not zero, SQL_OFF carries it and SQL_ON does not
C11_Witness ==
    /\ StepCalled
    /\ last.raised = NoException
    /\ trainer.sql_loss_impl = "v2_v2r"
    /\ Len(last.forwards) = 2
    /\ MarginApplies(trainer, last.forwards[1])
    /\ ~MarginApplies(trainer, last.forwards[2])
    /\ ConfiguredMarginTerm(trainer, last.forwards[1], 0, 0) > 0
    /\ ConfiguredMarginTerm(trainer, last.forwards[2], 0, 0) > 0
    /\ last.forwards[1].raw_losses[0][0] # last.forwards[2].raw_losses[0][0]

----------------------------------------------------------------------------
(* The helper functions of the module, each called on arguments drawn from  *)
(* a bounded set.                                                           *)

MarginConstants == {0, One \div 2, Fix(1), Fix(2)}

\* batches of one and of two rows, every position drawn from Cells
MarginBatches ==
    { <<c>> : c \in { r \in RowCases : r.sl = MaxT } }
        \cup { <<c, SecondRow>> : c \in { r \in RowCases : r.sl = MaxT } }

LargeMarginCalls ==
    { [fn |-> "large_margin_classification_loss",
       logits |-> Tensor3(rows, "lg"),
       expert_actions |-> [i \in 0..(Len(rows) - 1) |-> rows[i + 1].act],
       margin_constant |-> mc] : rows \in MarginBatches, mc \in MarginConstants }

CallLargeMargin ==
    /\ fphase = "ready"
    /\ fcall.fn = "large_margin_classification_loss"
    /\ fres' = large_margin_classification_loss(
                   fcall.logits, fcall.expert_actions, fcall.margin_constant)
    /\ fphase' = "returned"
    /\ UNCHANGED fcall
    /\ UNCHANGED <<lossVars, trainerVars, ddpoVars>>

DictKeyNames == {"a", "xa", "xxa", "b"}

MaxEntries == 3

\* the dicts of at most MaxEntries entries over DictKeyNames, with the
\* values 10, 20, ... in insertion order
Dicts ==
    { [n \in DOMAIN ks |-> Entry(ks[n], 10 * n)] :
        ks \in { f \in UNION { [1..len -> DictKeyNames] : len \in 0..MaxEntries } :
                   \A m, n \in DOMAIN f : m # n => f[m] # f[n] } }

Prefixes == {"x", ""}

KeysToExclude == {None} \cup { Some(ks) : ks \in {{}, {"a"}, {"xa"}, {"b", "xa"}} }

AddPrefixCalls ==
    { [fn |-> "add_prefix_to_dict_keys_inplace", d |-> d, prefix |-> prefix,
       keys_to_exclude |-> keys_to_exclude] :
        d \in Dicts, prefix \in Prefixes, keys_to_exclude \in KeysToExclude }

\* the call leaves d changed in place; fres is d afterwards
CallAddPrefix ==
    /\ fphase = "ready"
    /\ fcall.fn = "add_prefix_to_dict_keys_inplace"
    /\ fres' = add_prefix_to_dict_keys_inplace(fcall.d, fcall.prefix, fcall.keys_to_exclude)
    /\ fphase' = "returned"
    /\ UNCHANGED fcall
    /\ UNCHANGED <<lossVars, trainerVars, ddpoVars>>

----------------------------------------------------------------------------
(* Python objects, for nested_detach_and_clone.  A memory holds the mutable *)
(* objects (dicts, lists, tuples, sets, tensors, arrays) by identity and    *)
(* the storages tensors and arrays keep their data in; a reference is the   *)
(* identity of an object, or an immutable value (None, bool, int, float,    *)
(* str) itself.                                                             *)

Leaf(value) == [id |-> 0, leaf |-> value]

Ref(id) == [id |-> id, leaf |-> 0]

\* an item of a container: lists and tuples leave the key empty
Item(key, is_str, ref) == [k |-> key, is_str |-> is_str, ref |-> ref]

Obj(kind, items, storage) == [kind |-> kind, items |-> items, storage |-> storage]

EmptyMemory == [objs |-> <<>>, stores |-> <<>>]

\* a new object, whose identity is Len(mem.objs) + 1
Alloc(mem, obj) == [mem EXCEPT !.objs = Append(@, obj)]

AllocStorage(mem, data) == [mem EXCEPT !.stores = Append(@, data)]

\* X.detach(): a new tensor on the storage of X
detach(mem, id) ==
    [mem |-> Alloc(mem, Obj("tensor", <<>>, mem.objs[id].storage)),
     id |-> Len(mem.objs) + 1]

\* X.clone(): a new tensor on a new storage holding a copy of the data
clone(mem, id) ==
    [mem |-> Alloc(AllocStorage(mem, mem.stores[mem.objs[id].storage]),
                   Obj("tensor", <<>>, Len(mem.stores) + 1)),
     id |-> Len(mem.objs) + 1]

\* X.cpu() of a tensor in CPU memory, which every tensor here is: X itself
cpu(mem, id) == [mem |-> mem, id |-> id]

\* X.numpy(): an array on the storage of X
numpy(mem, id) ==
    [mem |-> Alloc(mem, Obj("ndarray", <<>>, mem.objs[id].storage)),
     id |-> Len(mem.objs) + 1]

\* mutant: the tensor is detached and not cloned
tensor_operation_without_clone(mem, id, to_cpu, to_numpy) ==
    LET a == detach(mem, id)
        b == IF to_cpu THEN cpu(a.mem, a.id) ELSE a
    IN  IF to_numpy THEN numpy(b.mem, b.id) ELSE b

\* _operation(X) of nested_detach_and_clone
tensor_operation(mem, id, to_cpu, to_numpy) ==
    LET d == detach(mem, id)
        a == clone(d.mem, d.id)
        b == IF to_cpu THEN cpu(a.mem, a.id) ELSE a
    IN  IF to_numpy THEN numpy(b.mem, b.id) ELSE b

RECURSIVE nested_tensor_operation(_, _, _, _)
RECURSIVE nested_items(_, _, _, _, _, _, _)
\* the loop over the items of a list, tuple or dict from items[n] on; a dict
\* checks that the key is a str before it descends into the value
nested_items(mem, items, n, acc, check_keys, to_cpu, to_numpy) ==
    IF n > Len(items) THEN [raised |-> NoException, mem |-> mem, items |-> acc]
    ELSE IF check_keys /\ ~items[n].is_str
    THEN [raised |-> "NotImplementedError", mem |-> mem, items |-> acc]
    ELSE LET r == nested_tensor_operation(mem, items[n].ref, to_cpu, to_numpy)
         IN  IF r.raised # NoException
             THEN [raised |-> r.raised, mem |-> r.mem, items |-> acc]
             ELSE nested_items(r.mem, items, n + 1,
                               Append(acc, Item(items[n].k, items[n].is_str, r.ref)),
                               check_keys, to_cpu, to_numpy)

\* nested_tensor_operation(obj, tensor_operation): the memory it leaves and
\* the reference it returns, or the exception it raises
nested_tensor_operation(mem, ref, to_cpu, to_numpy) ==
    IF ref.id = 0 THEN [raised |-> NoException, mem |-> mem, ref |-> ref]
    ELSE LET obj == mem.objs[ref.id]
         IN  IF obj.kind \in {"list", "tuple"}
             THEN LET r == nested_items(mem, obj.items, 1, <<>>, FALSE, to_cpu, to_numpy)
                  IN  IF r.raised # NoException
                      THEN [raised |-> r.raised, mem |-> r.mem, ref |-> ref]
                      ELSE [raised |-> NoException,
                            mem |-> Alloc(r.mem, Obj("list", r.items, 0)),
                            ref |-> Ref(Len(r.mem.objs) + 1)]
             ELSE IF obj.kind = "dict"
             THEN LET r == nested_items(mem, obj.items, 1, <<>>, TRUE, to_cpu, to_numpy)
                  IN  IF r.raised # NoException
                      THEN [raised |-> r.raised, mem |-> r.mem, ref |-> ref]
                      ELSE [raised |-> NoException,
                            mem |-> Alloc(r.mem, Obj("dict", r.items, 0)),
                            ref |-> Ref(Len(r.mem.objs) + 1)]
             ELSE IF obj.kind = "tensor"
             THEN LET r == tensor_operation(mem, ref.id, to_cpu, to_numpy)
                  IN  [raised |-> NoException, mem |-> r.mem, ref |-> Ref(r.id)]
             ELSE [raised |-> "TypeError", mem |-> mem, ref |-> ref]

nested_detach_and_clone(mem, obj, to_cpu, to_numpy) ==
    IF ~to_cpu /\ to_numpy
    THEN [raised |-> "ValueError", mem |-> mem, ref |-> obj]
    ELSE nested_tensor_operation(mem, obj, to_cpu, to_numpy)

Tensor(storage) == Obj("tensor", <<>>, storage)

List(refs) == Obj("list", [n \in DOMAIN refs |-> Item("", TRUE, refs[n])], 0)

Tuple(refs) == Obj("tuple", [n \in DOMAIN refs |-> Item("", TRUE, refs[n])], 0)

Dict(items) == Obj("dict", items, 0)

\* the structures nested_detach_and_clone is called on: a memory and the
\* reference passed as obj
Structures ==
    { \* {"a": X, "b": [Y, X], "c": 3}
      [mem |-> [objs |-> <<Tensor(1), Tensor(2), List(<<Ref(2), Ref(1)>>),
                           Dict(<<Item("a", TRUE, Ref(1)), Item("b", TRUE, Ref(3)),
                                  Item("c", TRUE, Leaf(3))>>)>>,
                stores |-> <<5, 7>>],
       obj |-> Ref(4)],
      \* (X, [Y])
      [mem |-> [objs |-> <<Tensor(1), Tensor(2), List(<<Ref(2)>>),
                           Tuple(<<Ref(1), Ref(3)>>)>>,
                stores |-> <<5, 7>>],
       obj |-> Ref(4)],
      \* {"a": {"b": X}, "c": 5}
      [mem |-> [objs |-> <<Tensor(1), Dict(<<Item("b", TRUE, Ref(1))>>),
                           Dict(<<Item("a", TRUE, Ref(2)), Item("c", TRUE, Leaf(5))>>)>>,
                stores |-> <<5>>],
       obj |-> Ref(3)],
      \* [X, X.detach()]: two tensors on one storage
      [mem |-> [objs |-> <<Tensor(1), Tensor(1), List(<<Ref(1), Ref(2)>>)>>,
                stores |-> <<5>>],
       obj |-> Ref(3)],
      \* X
      [mem |-> [objs |-> <<Tensor(1)>>, stores |-> <<5>>], obj |-> Ref(1)],
      \* {"t": (), "l": []}
      [mem |-> [objs |-> <<Tuple(<<>>), List(<<>>),
                           Dict(<<Item("t", TRUE, Ref(1)), Item("l", TRUE, Ref(2))>>)>>,
                stores |-> <<>>],
       obj |-> Ref(3)],
      \* 7
      [mem |-> EmptyMemory, obj |-> Leaf(7)],
      \* {"a": X, "b": set()}
      [mem |-> [objs |-> <<Tensor(1), Obj("set", <<>>, 0),
                           Dict(<<Item("a", TRUE, Ref(1)), Item("b", TRUE, Ref(2))>>)>>,
                stores |-> <<5>>],
       obj |-> Ref(3)],
      \* {"a": X, 1: X}
      [mem |-> [objs |-> <<Tensor(1),
                           Dict(<<Item("a", TRUE, Ref(1)), Item("1", FALSE, Ref(1))>>)>>,
                stores |-> <<5>>],
       obj |-> Ref(2)] }

NestedCalls ==
    { [fn |-> "nested_detach_and_clone", mem |-> st.mem, obj |-> st.obj,
       to_cpu |-> to_cpu, to_numpy |-> to_numpy] :
        st \in Structures, to_cpu \in BOOLEAN, to_numpy \in BOOLEAN }

CallNestedDetachAndClone ==
    /\ fphase = "ready"
    /\ fcall.fn = "nested_detach_and_clone"
    /\ \E r \in {nested_detach_and_clone(fcall.mem, fcall.obj, fcall.to_cpu, fcall.to_numpy)} :
          fres' = [raised |-> r.raised, mem |-> r.mem, ref |-> r.ref, mutations |-> 0]
    /\ fphase' = "returned"
    /\ UNCHANGED fcall
    /\ UNCHANGED <<lossVars, trainerVars, ddpoVars>>

RECURSIVE ReachObjs(_, _)
\* the objects reachable from a reference
ReachObjs(mem, ref) ==
    IF ref.id = 0 THEN {}
    ELSE {ref.id} \cup UNION { ReachObjs(mem, mem.objs[ref.id].items[n].ref) :
                                n \in DOMAIN mem.objs[ref.id].items }

ArrayKinds == {"tensor", "ndarray"}

\* the storages of the tensors and arrays reachable from a reference
ReachStores(mem, ref) ==
    { mem.objs[id].storage : id \in { x \in ReachObjs(mem, ref) : mem.objs[x].kind \in ArrayKinds } }

MaxMutations == 2

Mutations == {"write", "append", "remove"}

\* an in-place change of an object: a write into a tensor's or array's data,
\* an item added to a list or dict, the first item removed from a list or dict
CanMutate(mem, id, how) ==
    CASE how = "write" -> mem.objs[id].kind \in ArrayKinds
      [] how = "append" ->
            \/ mem.objs[id].kind = "list"
            \/ /\ mem.objs[id].kind = "dict"
               /\ \A n \in DOMAIN mem.objs[id].items : mem.objs[id].items[n].k # "new"
      [] how = "remove" -> mem.objs[id].kind \in {"list", "dict"} /\ mem.objs[id].items # <<>>

Mutated(mem, id, how) ==
    CASE how = "write" -> [mem EXCEPT !.stores[mem.objs[id].storage] = @ + 1]
      [] how = "append" ->
            [mem EXCEPT !.objs[id].items =
                Append(@, Item(IF mem.objs[id].kind = "dict" THEN "new" ELSE "", TRUE, Leaf(99)))]
      [] how = "remove" -> [mem EXCEPT !.objs[id].items = Tail(@)]

\* the caller changes, in place, an object of the structure that was returned
MutateClone ==
    /\ fphase \in {"returned", "mutated"}
    /\ fcall.fn = "nested_detach_and_clone"
    /\ fres.raised = NoException
    /\ fres.mutations < MaxMutations
    /\ \E id \in ReachObjs(fres.mem, fres.ref), how \in Mutations :
          /\ CanMutate(fres.mem, id, how)
          /\ fres' = [fres EXCEPT !.mem = Mutated(fres.mem, id, how),
                                  !.mutations = @ + 1]
    /\ fphase' = "mutated"
    /\ UNCHANGED fcall
    /\ UNCHANGED <<lossVars, trainerVars, ddpoVars>>

----------------------------------------------------------------------------
(* DDPOTrainer.loss (trl.trainer.ddpo_trainer; this repository's code, not  *)
(* among the source files: modelled from the specification's section 4.3)   *)

Max2(x, y) == IF x >= y THEN x ELSE y

\* clip(x, lo, hi)
clamp(x, lo, hi) == IF x < lo THEN lo ELSE IF x > hi THEN hi ELSE x

RECURSIVE SeqSum(_, _)
SeqSum(xs, n) == IF n = 0 THEN 0 ELSE xs[n] + SeqSum(xs, n - 1)

\* mutant: the better of the clipped and the unclipped term is taken
ddpo_loss_min(advantage, clip_range, ratio) ==
    [num |-> SeqSum([n \in DOMAIN advantage |->
                        0 - Max2(MulFix(advantage[n], ratio[n]),
                                 MulFix(advantage[n],
                                        clamp(ratio[n], One - clip_range, One + clip_range)))],
                    Len(advantage)),
     den |-> Len(advantage)]

\* mean(max(-advantage * ratio, -advantage * clip(ratio, 1 - c, 1 + c))), as
\* the exact fraction num/den
ddpo_loss(advantage, clip_range, ratio) ==
    [num |-> SeqSum([n \in DOMAIN advantage |->
                        Max2(MulFix(0 - advantage[n], ratio[n]),
                             MulFix(0 - advantage[n],
                                    clamp(ratio[n], One - clip_range, One + clip_range)))],
                    Len(advantage)),
     den |-> Len(advantage)]

MaxBatch == 2

Advantages == {Fix(0 - 1), 0, Fix(1)}

Ratios == {One \div 2, One, 2 * One}

ClipRanges == {0, One \div Den, One \div 2}

DDPOLossCalls ==
    { [fn |-> "loss", advantage |-> c.advantage, clip_range |-> clip_range, ratio |-> c.ratio] :
        c \in UNION { [advantage : [1..n -> Advantages], ratio : [1..n -> Ratios]] :
                        n \in 1..MaxBatch },
        clip_range \in ClipRanges }

CallDDPOLoss ==
    /\ fphase = "ready"
    /\ fcall.fn = "loss"
    /\ fres' = ddpo_loss(fcall.advantage, fcall.clip_range, fcall.ratio)
    /\ fphase' = "returned"
    /\ UNCHANGED fcall
    /\ UNCHANGED <<lossVars, trainerVars, ddpoVars>>

InitFunctions ==
    /\ \/ fcall \in LargeMarginCalls
       \/ fcall \in AddPrefixCalls
       \/ fcall \in NestedCalls
       \/ fcall \in DDPOLossCalls
    /\ fres = <<>>
    /\ fphase = "ready"
    /\ LossOff
    /\ TrainerOff
    /\ DDPOOff

NextFunctions ==
    \/ CallLargeMargin
    \/ CallAddPrefix
    \/ CallNestedDetachAndClone
    \/ MutateClone
    \/ CallDDPOLoss

SpecFunctions == InitFunctions /\ [][NextFunctions]_vars

----------------------------------------------------------------------------
(* Claims about the helper functions, under SpecFunctions.                  *)

Returned(fn) == fphase = "returned" /\ fcall.fn = fn

\* C12: large_margin_classification_loss returns at every position the
\* maximum over the actions a of logits[a] + margin_constant * [a # expert]
\* minus logits[expert], and 0 where the expert's logit exceeds every other
\* logit by more than margin_constant.
C12_LargeMarginLoss ==
    Returned("large_margin_classification_loss") =>
        \A i \in 0..(Batch(fcall.logits) - 1), t \in 0..(Time(fcall.logits) - 1) :
            LET x == fcall.logits.data[i][t]
                expert == fcall.expert_actions[i][t]
                others == (0..(fcall.logits.shape[3] - 1)) \ {expert}
                candidates == {x[expert]} \cup { x[a] + fcall.margin_constant : a \in others }
                top == CHOOSE m \in candidates : \A y \in candidates : m >= y
            IN  /\ fres.raw_losses[i][t] = top - x[expert]
                /\ (\A a \in others : x[expert] > x[a] + fcall.margin_constant)
                      => fres.raw_losses[i][t] = 0

\* a call with a positive margin, a position where the expert leads by more
\* than the margin and a position where it does not
C12_Witness ==
    /\ Returned("large_margin_classification_loss")
    /\ fcall.margin_constant > 0
    /\ \E i \in 0..(Batch(fcall.logits) - 1), t \in 0..(Time(fcall.logits) - 1) :
          /\ \A a \in (0..(fcall.logits.shape[3] - 1)) \ {fcall.expert_actions[i][t]} :
                fcall.logits.data[i][t][fcall.expert_actions[i][t]]
                    > fcall.logits.data[i][t][a] + fcall.margin_constant
          /\ fres.raw_losses[i][t] = 0
    /\ \E i \in 0..(Batch(fcall.logits) - 1), t \in 0..(Time(fcall.logits) - 1) :
          fres.raw_losses[i][t] > 0

RECURSIVE DeepValue(_, _, _)
\* what a structure holds: the kind of every container, its keys in order and
\* the values of its leaves, a tensor or array counting by its data; with
\* tuples_as_lists a tuple counts as a list
DeepValue(mem, ref, tuples_as_lists) ==
    IF ref.id = 0 THEN [kind |-> "value", data |-> ref.leaf, items |-> <<>>]
    ELSE IF mem.objs[ref.id].kind \in ArrayKinds
    THEN [kind |-> "tensor", data |-> mem.stores[mem.objs[ref.id].storage], items |-> <<>>]
    ELSE [kind |-> IF tuples_as_lists /\ mem.objs[ref.id].kind = "tuple"
                   THEN "list" ELSE mem.objs[ref.id].kind,
          data |-> 0,
          items |-> [n \in DOMAIN mem.objs[ref.id].items |->
                        [k |-> mem.objs[ref.id].items[n].k,
                         v |-> DeepValue(mem, mem.objs[ref.id].items[n].ref, tuples_as_lists)]]]

Cloned ==
    /\ fcall.fn = "nested_detach_and_clone"
    /\ fphase \in {"returned", "mutated"}
    /\ fres.raised = NoException

\* the result shares no object and no storage with the source, and the source
\* holds what it held before the call
SourceUntouched ==
    /\ ReachObjs(fres.mem, fres.ref) \cap ReachObjs(fres.mem, fcall.obj) = {}
    /\ ReachStores(fres.mem, fres.ref) \cap ReachStores(fres.mem, fcall.obj) = {}
    /\ DeepValue(fres.mem, fcall.obj, FALSE) = DeepValue(fcall.mem, fcall.obj, FALSE)

\* C13 as stated: the result has the same container kind at every node, the
\* same keys in the same order and equal leaf values, it shares no mutable
\* storage with the source, and no mutation of it changes the source.
C13_AsStated ==
    Cloned =>
        /\ fphase = "returned"
              => DeepValue(fres.mem, fres.ref, FALSE) = DeepValue(fcall.mem, fcall.obj, FALSE)
        /\ SourceUntouched

\* C13, amended: the result has the same keys in the same order and equal
\* leaf values, with a list where the source has a list or a tuple and a dict
\* where it has a dict; it shares no mutable storage with the source, and no
\* mutation of it changes the source.
C13_NestedDetachAndClone ==
    Cloned =>
        /\ fphase = "returned"
              => DeepValue(fres.mem, fres.ref, TRUE) = DeepValue(fcall.mem, fcall.obj, TRUE)
        /\ fphase = "returned"
              => \A id \in ReachObjs(fres.mem, fres.ref) : fres.mem.objs[id].kind # "tuple"
        /\ SourceUntouched

\* the clone of a tuple that holds a tensor, after two mutations of the clone
C13_Witness ==
    /\ Cloned
    /\ fphase = "mutated"
    /\ fres.mutations = MaxMutations
    /\ fcall.obj.id # 0
    /\ fcall.mem.objs[fcall.obj.id].kind = "tuple"
    /\ \E sid \in ReachStores(fres.mem, fres.ref) :
          \A n \in DOMAIN fcall.mem.stores : fres.mem.stores[sid] # fcall.mem.stores[n]
    /\ DeepValue(fres.mem, fres.ref, TRUE) # DeepValue(fcall.mem, fcall.obj, TRUE)

\* C14: the loss is the mean over the batch of the larger of
\* -advantage * ratio and -advantage * clip(ratio, 1 - clip_range, 1 + clip_range);
\* when every ratio is 1 it is -mean(advantage).
C14_DDPOLoss ==
    Returned("loss") =>
        LET n == Len(fcall.advantage)
            unclipped(j) == (0 - fcall.advantage[j] * fcall.ratio[j]) \div Den
            clipped(j) ==
                (0 - fcall.advantage[j]
                       * (IF fcall.ratio[j] < One - fcall.clip_range THEN One - fcall.clip_range
                          ELSE IF fcall.ratio[j] > One + fcall.clip_range
                          THEN One + fcall.clip_range ELSE fcall.ratio[j])) \div Den
            worse(j) == IF unclipped(j) >= clipped(j) THEN unclipped(j) ELSE clipped(j)
        IN  /\ fres.den = n
            /\ fres.num = SeqSum([j \in 1..n |-> worse(j)], n)
            /\ (\A j \in 1..n : fcall.ratio[j] = One)
                  => fres.num = 0 - SeqSum(fcall.advantage, n)

\* the regression anchor: advantage [-1], ratio [1], a positive clip range,
\* loss 1
C14_Witness ==
    /\ Returned("loss")
    /\ fcall.advantage = <<Fix(0 - 1)>>
    /\ fcall.ratio = <<One>>
    /\ fcall.clip_range > 0
    /\ fres = [num |-> Fix(1), den |-> 1]

\* C20 as stated: afterwards d has as many entries as before, every key that
\* is not excluded has become prefix + key with the value it had, and every
\* excluded key is kept with its value.
C20_AsStated ==
    Returned("add_prefix_to_dict_keys_inplace") =>
        /\ Len(fres) = Len(fcall.d)
        /\ \A n \in DOMAIN fcall.d :
              LET key == fcall.d[n].k
                  excluded == /\ fcall.keys_to_exclude # None
                              /\ key \in ValueOf(fcall.keys_to_exclude)
                  kept == IF excluded THEN key ELSE fcall.prefix \o key
              IN  /\ kept \in DictKeys(fres)
                  /\ DictValue(fres, kept) = fcall.d[n].v

----------------------------------------------------------------------------
(* The statistics tracker and the outer epoch of the DDPO trainer           *)
(* (trl.trainer.ddpo_trainer; this repository's code, not among the source  *)
(* files: modelled from the specification's sections 4.1, 4.3 and 5, with   *)
(* the options of DDPOConfig)                                               *)

\* sample_num_batches_per_epoch, train_num_inner_epochs, num_epochs
NumBatches == 2

NumInnerEpochs == 2

NumEpochs == 2

\* per_prompt_stat_tracking_buffer_size
MaxBufferSize == 2

MinCount == 2

Prompts == {"p", "q"}

RewardValues == {1, 2}

RECURSIVE SeqSquares(_, _)
SeqSquares(xs, n) == IF n = 0 THEN 0 ELSE xs[n] * xs[n] + SeqSquares(xs, n - 1)

\* the population mean and variance of a history, as exact fractions
statistics(xs) ==
    [mean |-> [num |-> SeqSum(xs, Len(xs)), den |-> Len(xs)],
     variance |-> [num |-> Len(xs) * SeqSquares(xs, Len(xs))
                             - SeqSum(xs, Len(xs)) * SeqSum(xs, Len(xs)),
                   den |-> Len(xs) * Len(xs)]]

History(tk, group_key) == IF group_key \in DOMAIN tk.stats THEN tk.stats[group_key] ELSE <<>>

\* mutant: an append beyond buffer_size drops the reward that arrived
evicted_newest(history, buffer_size) ==
    IF Len(history) > buffer_size THEN SubSeq(history, 1, buffer_size) ELSE history

\* a history longer than buffer_size loses its oldest entry
evicted(history, buffer_size) ==
    IF Len(history) > buffer_size THEN Tail(history) ELSE history

\* update(group_key, raw_reward): the tracker it leaves and, for the
\* normalized advantage (raw_reward - mean) / (std + 1e-6), the mean and the
\* variance it is computed from: those of the group's history, or of all the
\* rewards of the batch when the history is shorter than min_count
update(tk, group_key, raw_reward, batch_rewards) ==
    LET history == evicted(Append(History(tk, group_key), raw_reward), tk.buffer_size)
        scope == IF Len(history) < tk.min_count THEN "global" ELSE "group"
    IN  [tk EXCEPT
            !.stats = [k \in DOMAIN tk.stats \cup {group_key} |->
                          IF k = group_key THEN history ELSE tk.stats[k]],
            !.received = [k \in DOMAIN tk.received \cup {group_key} |->
                             IF k = group_key
                             THEN Append(IF k \in DOMAIN tk.received
                                         THEN tk.received[k] ELSE <<>>, raw_reward)
                             ELSE tk.received[k]],
            !.before = tk.stats,
            !.group_key = group_key,
            !.updates = @ + 1,
            !.returned = [raw_reward |-> raw_reward, scope |-> scope,
                          statistics |-> statistics(IF scope = "group" THEN history
                                                    ELSE batch_rewards)]]

\* a tracker with no group
new_tracker(buffer_size, min_count) ==
    [buffer_size |-> buffer_size, min_count |-> min_count,
     stats |-> <<>>, received |-> <<>>, before |-> <<>>,
     group_key |-> "", updates |-> 0, returned |-> <<>>]

\* mutant: the join returns without waiting for the result
joined_without_wait(request) == TRUE

\* the join of a reward request is a blocking wait: it returns once the
\* request is resolved
joined(request) == request.status = "resolved"

\* the state at the start of an outer epoch
new_epoch(config, epoch) ==
    [config |-> config, epoch |-> epoch, phase |-> "sampling",
     samples |-> <<>>, joins |-> 0, assigned |-> 0, inner |-> 0,
     phases |-> <<"sampling">>, overlapped |-> 0, unresolved_reads |-> 0]

InitDDPO ==
    /\ \E async_reward_computation \in BOOLEAN, per_prompt_stat_tracking \in BOOLEAN,
          buffer_size \in 1..MaxBufferSize :
          /\ ddpo = new_epoch([async_reward_computation |-> async_reward_computation,
                               per_prompt_stat_tracking |-> per_prompt_stat_tracking], 1)
          /\ tracker = new_tracker(buffer_size, MinCount)
    /\ LossOff
    /\ TrainerOff
    /\ FunctionsOff

\* one batch is sampled; its reward is computed at once, or requested
SampleBatch ==
    /\ ddpo.phase = "sampling"
    /\ Len(ddpo.samples) < NumBatches
    /\ \E prompt \in Prompts, reward \in RewardValues :
          ddpo' = [ddpo EXCEPT
                      !.samples =
                          Append(@, [prompt |-> prompt, reward |-> reward,
                                     status |-> IF ddpo.config.async_reward_computation
                                                THEN "pending" ELSE "resolved"]),
                      !.overlapped =
                          IF \E n \in DOMAIN ddpo.samples : ddpo.samples[n].status = "pending"
                          THEN @ + 1 ELSE @]
    /\ UNCHANGED tracker
    /\ UNCHANGED <<lossVars, trainerVars, functionVars>>

\* a requested reward becomes available
ResolveReward ==
    /\ \E n \in DOMAIN ddpo.samples :
          /\ ddpo.samples[n].status = "pending"
          /\ ddpo' = [ddpo EXCEPT !.samples[n].status = "resolved"]
    /\ UNCHANGED tracker
    /\ UNCHANGED <<lossVars, trainerVars, functionVars>>

\* sampling is over: the rewards are collected
StartRewards ==
    /\ ddpo.phase = "sampling"
    /\ Len(ddpo.samples) = NumBatches
    /\ ddpo' = [ddpo EXCEPT !.phase = "reward", !.phases = Append(@, "reward")]
    /\ UNCHANGED tracker
    /\ UNCHANGED <<lossVars, trainerVars, functionVars>>

\* the reward of the next batch is joined
JoinReward ==
    /\ ddpo.phase = "reward"
    /\ ddpo.joins < Len(ddpo.samples)
    /\ joined(ddpo.samples[ddpo.joins + 1])
    /\ ddpo' = [ddpo EXCEPT !.joins = @ + 1]
    /\ UNCHANGED tracker
    /\ UNCHANGED <<lossVars, trainerVars, functionVars>>

StartAdvantages ==
    /\ ddpo.phase = "reward"
    /\ ddpo.joins = Len(ddpo.samples)
    /\ ddpo' = [ddpo EXCEPT !.phase = "advantage", !.phases = Append(@, "advantage")]
    /\ UNCHANGED tracker
    /\ UNCHANGED <<lossVars, trainerVars, functionVars>>

\* the advantage of the next trajectory is computed from its reward, through
\* the tracker when per_prompt_stat_tracking is on
AssignAdvantage ==
    /\ ddpo.phase = "advantage"
    /\ ddpo.assigned < Len(ddpo.samples)
    /\ LET sample == ddpo.samples[ddpo.assigned + 1]
       IN  /\ ddpo' = [ddpo EXCEPT !.assigned = @ + 1,
                                   !.unresolved_reads =
                                       IF sample.status = "resolved" THEN @ ELSE @ + 1]
           /\ tracker' = IF ddpo.config.per_prompt_stat_tracking
                         THEN update(tracker, sample.prompt, sample.reward,
                                     [n \in DOMAIN ddpo.samples |-> ddpo.samples[n].reward])
                         ELSE tracker
    /\ UNCHANGED <<lossVars, trainerVars, functionVars>>

StartTraining ==
    /\ ddpo.phase = "advantage"
    /\ ddpo.assigned = Len(ddpo.samples)
    /\ ddpo' = [ddpo EXCEPT !.phase = "training"]
    /\ UNCHANGED tracker
    /\ UNCHANGED <<lossVars, trainerVars, functionVars>>

\* one pass over the samples
TrainInnerEpoch ==
    /\ ddpo.phase = "training"
    /\ ddpo.inner < NumInnerEpochs
    /\ ddpo' = [ddpo EXCEPT !.inner = @ + 1, !.phases = Append(@, "training")]
    /\ UNCHANGED tracker
    /\ UNCHANGED <<lossVars, trainerVars, functionVars>>

FinishEpoch ==
    /\ ddpo.phase = "training"
    /\ ddpo.inner = NumInnerEpochs
    /\ ddpo' = [ddpo EXCEPT !.phase = "done", !.phases = Append(@, "done")]
    /\ UNCHANGED tracker
    /\ UNCHANGED <<lossVars, trainerVars, functionVars>>

NextEpoch ==
    /\ ddpo.phase = "done"
    /\ ddpo.epoch < NumEpochs
    /\ ddpo' = new_epoch(ddpo.config, ddpo.epoch + 1)
    /\ UNCHANGED tracker
    /\ UNCHANGED <<lossVars, trainerVars, functionVars>>

NextDDPO ==
    \/ SampleBatch
    \/ ResolveReward
    \/ StartRewards
    \/ JoinReward
    \/ StartAdvantages
    \/ AssignAdvantage
    \/ StartTraining
    \/ TrainInnerEpoch
    \/ FinishEpoch
    \/ NextEpoch

SpecDDPO == InitDDPO /\ [][NextDDPO]_vars

----------------------------------------------------------------------------
(* Claims about the statistics tracker and the DDPO epoch, under SpecDDPO.  *)

\* the last n entries of a sequence, or all of it
LastOf(xs, n) == IF Len(xs) <= n THEN xs ELSE SubSeq(xs, Len(xs) - n + 1, Len(xs))

\* C15: every group's history holds at most buffer_size rewards, which are the
\* most recent rewards received for its key in arrival order, and an update
\* leaves the history of every other key as it was.
C15_TrackerFIFO ==
    tracker.updates > 0 =>
        /\ \A k \in DOMAIN tracker.stats :
              /\ Len(tracker.stats[k]) <= tracker.buffer_size
              /\ tracker.stats[k] = LastOf(tracker.received[k], tracker.buffer_size)
        /\ \A k \in DOMAIN tracker.before :
              k # tracker.group_key => tracker.stats[k] = tracker.before[k]

\* two groups, one of which received more than buffer_size rewards, the
\* oldest of them different from the ones kept
C15_Witness ==
    /\ tracker.updates > 0
    /\ tracker.buffer_size = MaxBufferSize
    /\ Cardinality(DOMAIN tracker.stats) = 2
    /\ \E k \in DOMAIN tracker.stats :
          /\ Len(tracker.received[k]) > tracker.buffer_size
          /\ \A n \in DOMAIN tracker.stats[k] : tracker.stats[k][n] # tracker.received[k][1]
          /\ k # tracker.group_key

PhaseOrder ==
    <<"sampling", "reward", "advantage">> \o [n \in 1..NumInnerEpochs |-> "training"] \o <<"done">>

\* C16: the phases of an outer epoch occur in the order sampling, reward
\* resolution, advantage assignment, NumInnerEpochs training passes; when
\* advantage assignment begins every batch has been sampled and every reward
\* request has been resolved and joined, and no advantage is computed from an
\* unresolved reward.
C16_PhasesInOrder ==
    /\ Len(ddpo.phases) <= Len(PhaseOrder)
    /\ ddpo.phases = SubSeq(PhaseOrder, 1, Len(ddpo.phases))
    /\ ddpo.phase \in {"advantage", "training", "done"}
          => /\ Len(ddpo.samples) = NumBatches
             /\ ddpo.joins = NumBatches
             /\ \A n \in DOMAIN ddpo.samples : ddpo.samples[n].status = "resolved"
    /\ ddpo.phase \in {"training", "done"} => ddpo.assigned = NumBatches
    /\ ddpo.phase = "done" => ddpo.inner = NumInnerEpochs
    /\ ddpo.unresolved_reads = 0

\* asynchronous rewards: a batch was sampled while an earlier request was
\* pending, and the epoch has run through all its phases
C16_Witness ==
    /\ ddpo.config.async_reward_computation
    /\ ddpo.overlapped > 0
    /\ ddpo.phase = "done"
    /\ ddpo.phases = PhaseOrder
    /\ ddpo.assigned = NumBatches

----------------------------------------------------------------------------
(* Further claims about the loss functions, under SpecLoss.                 *)

\* C17 as stated: in V1 and V2 no position t >= sequence_length[i] of row i
\* receives the terminal assignment: there the target Q_ of V1 is the shifted
\* target V (zero at the last position), and the target A_ of V2 is the
\* shifted difference of the target V, for every sequence_length[i] in 0..T.
C17_AsStated ==
    (Called /\ largs.implementation \in {"v1", "v2"} /\ lres.raised = NoException) =>
        LET B == Batch(largs.logits)
            T == Time(largs.logits)
            V_ == DictValue(lres.quantities_to_log, "V_")
        IN  \A i \in 0..(B - 1), t \in 0..(T - 1) :
                t >= largs.sequence_length[i] =>
                    IF largs.implementation = "v1"
                    THEN DictValue(lres.quantities_to_log, "Q_")[i][t] = shifted(V_, B, T)[i][t]
                    ELSE DictValue(lres.quantities_to_log, "A_")[i][t]
                            = shifted_difference(V_, B, T)[i][t]

----------------------------------------------------------------------------
(* Further claims about SoftQLearningTrainer, under Spec.                   *)

\* C18 as stated: the update of a step is computed from the gradient of that
\* step's loss only: when the optimizer runs, the gradient of each of its
\* parameters holds the contribution of the current step and of no earlier one.
C18_AsStated ==
    (StepCalled /\ last.raised = NoException) =>
        \A p \in optimizer.params : optimizer.state[p].grad = {last.step}

ForwardTrace == SelectSeq(last.trace, LAMBDA e : e \in ForwardEvents)

\* the modes run as the claim orders them
ModesInOrder ==
    /\ (trainer.mix_strategy = "alternate" /\ ReachedForward(last.trace))
          => ForwardTrace = <<IF last.step % 2 = 0 THEN "forward_SQL_OFF" ELSE "forward_SQL_ON">>
    /\ (trainer.mix_strategy = "mix" /\ last.raised = NoException)
          => /\ ForwardTrace = <<"forward_SQL_OFF", "forward_SQL_ON">>
             /\ last.forwards[1].mode = "SQL_OFF"
             /\ last.forwards[2].mode = "SQL_ON"
             /\ last.loss.num * (2 * last.forwards[1].loss.den * last.forwards[2].loss.den)
                   = (last.forwards[1].loss.num * last.forwards[2].loss.den
                      + last.forwards[2].loss.num * last.forwards[1].loss.den) * last.loss.den

\* the entry is in the returned log, with its value
Logged(e) == e.k \in DictKeys(last.batch_log) /\ DictValue(last.batch_log, e.k) = e.v

\* C19 as stated: "alternate" runs one mode, SQL_OFF on even and SQL_ON on
\* odd steps; "mix" runs SQL_OFF then SQL_ON, the step loss is the mean of the
\* two mode losses, and every metric of both modes (those of the reward
\* function, those of the loss, the two reward means) is in the returned log
\* under its mode prefix with its value.
C19_AsStated ==
    StepCalled =>
        /\ ModesInOrder
        /\ last.raised = NoException
              => \A j \in DOMAIN last.forwards :
                    \A d \in DOMAIN last.forwards[j].dicts :
                        \A n \in DOMAIN last.forwards[j].dicts[d] :
                            Logged(last.forwards[j].dicts[d][n])

\* the keys under which _forward_SQL logs the two reward means of a mode
RewardMeanKeys(mode) == {mode \o "/rewards/raw", mode \o "/rewards/shaped"}

\* C19, amended: the modes and the step loss are as stated, and every metric
\* of both modes is in the returned log under its mode prefix with its value,
\* except a metric of the reward function named "raw" or "shaped", whose place
\* is taken by the mean of the rewards.
C19_ModesAndLog ==
    StepCalled =>
        /\ ModesInOrder
        /\ last.raised = NoException
              => \A j \in DOMAIN last.forwards :
                    /\ \A d \in DOMAIN last.forwards[j].dicts :
                          \A n \in DOMAIN last.forwards[j].dicts[d] :
                              \/ Logged(last.forwards[j].dicts[d][n])
                              \/ /\ d = 1
                                 /\ last.forwards[j].dicts[d][n].k
                                        \in RewardMeanKeys(last.forwards[j].mode)
                    /\ \A n \in DOMAIN last.forwards[j].dicts[3] :
                          Logged(last.forwards[j].dicts[3][n])

\* a "mix" step at an odd index, with different losses in the two modes, whose
\* returned log holds the entries of both modes
C19_Witness ==
    /\ StepCalled
    /\ last.raised = NoException
    /\ trainer.mix_strategy = "mix"
    /\ last.step = 1
    /\ Len(last.forwards) = 2
    /\ last.forwards[1].loss # last.forwards[2].loss
    /\ Len(last.batch_log) = Len(last.forwards[1].log) + Len(last.forwards[2].log)
    /\ \E n \in DOMAIN last.forwards[2].dicts[1] : Logged(last.forwards[2].dicts[1][n])

=============================================================================
